---- MODULE Spec2Model ----
(***************************************************************************)
(* Connection registry of the LanceDB viewer: useConnection (per-profile   *)
(* ConnectionState with the connect / refresh / open lanes), the profile   *)
(* list of useProfiles as far as the lanes read it, and the status/error   *)
(* message pair the lanes report through. Further specifications cover    *)
(* the result envelope (EnvelopeSpec), the explorer and search views       *)
(* (ScanSpec), and the deletion of a profile with the cleanup of the       *)
(* credential vault (ProfileSpec).                                         *)
(*                                                                         *)
(* JavaScript runs each handler to its next `await` without interruption,  *)
(* so one action is the code between two suspension points; a driver call  *)
(* in flight is a record in `calls`, and its response is an action.        *)
(* An `await` of an async function that returned without suspending, and   *)
(* the `finally` of the caller of an async function that just settled, run *)
(* as microtasks before any other handler, so they belong to the same      *)
(* action.                                                                 *)
(***************************************************************************)
EXTENDS Integers, FiniteSets, Sequences, TLC

VARIABLES
    profiles,         \* useProfiles: profiles.value, the StoredProfiles in order
    activeProfileId,  \* useProfiles: activeProfileId.value
    isSavingProfile,  \* useProfiles: isSavingProfile.value
    conn,             \* useConnection: connectionStates.value, by profile id
    calls,            \* driver (and store) calls in flight, one record each
    nextId,           \* per profile, the number of its next accepted invocation
    statusMessage,    \* useStatusMessages: statusMessage.value
    errorMessage,     \* useStatusMessages: errorMessage.value
    last,             \* history: the step taken last
    envelope,         \* a ResultEnvelope a command has answered with
    unwrapped,        \* what unwrapEnvelope made of it, once applied
    explorer,         \* ExplorerView: dataRows, nextOffset, scanError, isScanning, offset
    search,           \* SearchView: resultRows, resultSchema, resultNextOffset, ...
    queries,          \* scan_v1 and query_filter_v1 calls in flight
    vault,            \* credentialVault: the stronghold items and the index of them
    persisted,        \* stores/profiles: the ProfileState in the store file
    deletion,         \* useProfiles: the deleteProfile in progress, if any
    cell,             \* formatters: a cell value handed to formatCellValue
    formatted,        \* what formatCellValue made of it, once applied
    saves,            \* saveProfileState calls of selectProfile in flight
    events,           \* profiles:create / profiles:update events sent by the dialogs
    saving            \* useProfiles: the addProfile or updateProfile in progress

profileVars == <<profiles, activeProfileId, isSavingProfile>>
messageVars == <<statusMessage, errorMessage>>
envelopeVars == <<envelope, unwrapped>>
\* what the connection registry does not touch
viewVars == <<explorer, search, queries>>
storeVars == <<vault, persisted, deletion>>
formatVars == <<cell, formatted>>
\* what only the specifications further down touch
eventVars == <<events, saving>>
auxVars == <<formatVars, saves, eventVars>>
outerVars == <<envelopeVars, viewVars, storeVars, auxVars>>
vars == <<profiles, activeProfileId, isSavingProfile, conn, calls, nextId,
          statusMessage, errorMessage, last, envelope, unwrapped,
          explorer, search, queries, vault, persisted, deletion, cell, formatted,
          saves, events, saving>>

----------------------------------------------------------------------------
(* Bounds *)

\* the longest array handed to formatCellValue
MaxItems == 7
\* the saveProfileState calls of selectProfile in flight at a time
MaxSaves == 1
\* the events the connection dialogs send
MaxEvents == 2

\* accepted lane invocations in one behaviour
MaxCalls == 3
\* accepted scans and queries in one behaviour
MaxScans == 2

\* the profile ids a caller can pass; "gone" is the id of a profile that is
\* no longer in the list (the route of the search view or an open context
\* menu can still carry it)
ProfileIds == {"p1", "p2", "gone"}
TableNames == {"items", "logs"}
\* the table lists a list_tables_v1 response can carry
TableLists == {{}, {"items"}}

----------------------------------------------------------------------------
(* Values *)

\* `null` of connectionId, activeTableId and schema
NoId == 0
\* `null` of activeTableName and activeProfileId
NoName == "null"
\* the empty message string
NoMessage == ""

\* createConnectionState()
createConnectionState ==
    [connectionId |-> NoId, tables |-> {}, activeTableName |-> NoName,
     activeTableId |-> NoId, schema |-> NoId,
     isConnecting |-> FALSE, isRefreshing |-> FALSE, isOpening |-> FALSE]

\* getState(profileId): the entry of the map, a new one if there is none
getState(p) == IF p \in DOMAIN conn THEN conn[p] ELSE createConnectionState

\* the map after getState(p) and the assignments that make p's state s
Store(p, s) == [q \in DOMAIN conn \cup {p} |-> IF q = p THEN s ELSE conn[q]]

\* resetConnection as it would be if it cleared the busy flags as well
ResetState_ClearsFlags(s) ==
    [s EXCEPT !.connectionId = NoId, !.tables = {}, !.activeTableName = NoName,
              !.activeTableId = NoId, !.schema = NoId,
              !.isConnecting = FALSE, !.isRefreshing = FALSE, !.isOpening = FALSE]

\* resetConnection as it would be if it left the handle in place
ResetState_KeepsHandle(s) ==
    [s EXCEPT !.tables = {}, !.activeTableName = NoName,
              !.activeTableId = NoId, !.schema = NoId]

\* the fields resetConnection assigns; the busy flags are not among them
ResetState(s) ==
    [s EXCEPT !.connectionId = NoId, !.tables = {}, !.activeTableName = NoName,
              !.activeTableId = NoId, !.schema = NoId]

\* AuthDescriptor (ipc/v1.ts): none, inline (params in the descriptor) or
\* secret_ref (a reference into the credential vault); NoAuth is an absent auth
AuthDescriptor(type, reference) == [type |-> type, reference |-> reference]
NoAuth == AuthDescriptor("undefined", "")
AuthNone == AuthDescriptor("none", "")
AuthInline == AuthDescriptor("inline", "")
SecretRef(r) == AuthDescriptor("secret_ref", r)

\* The driver hands out a new opaque connection id on every successful connect
\* and a new opaque table id on every successful open; the number of the
\* invocation that made the call stands for it.
ConnectionIdOf(c) == c.uid
TableIdOf(c) == c.uid
\* get_schema_v1 answers for the key it is asked about
SchemaOf(key) == key

\* a call in flight: the invocation, its profile, lane and the driver command
\* awaited, the connection id, table name and table id passed along, whether
\* connectProfile made the refresh, and (history) whether resetConnection ran
\* while the connect was in flight; a connect_v1 call also has the auth
\* descriptor of the profile handed to the driver
Call(uid, p, lane, stage, connId, name, tableId, chained) ==
    [uid |-> uid, p |-> p, lane |-> lane, stage |-> stage, connId |-> connId,
     name |-> name, tableId |-> tableId, chained |-> chained, overtaken |-> FALSE,
     auth |-> NoAuth]

\* a history record of the step taken: the operation, its profile, the
\* invocation, the table name and the id it carries, whether the request was
\* accepted (or the response a success), whether a successful connect went on
\* to request the table list, and whether the connect answered had been
\* overtaken by a resetConnection; for a list response that succeeded, also
\* the list the driver returned and the list it replaced
Step(op, p, uid, name, id, ok, listed, stale) ==
    [op |-> op, p |-> p, uid |-> uid, name |-> name, id |-> id, ok |-> ok,
     listed |-> listed, stale |-> stale, tables |-> {}, replaced |-> {}]

\* StoredProfile, as far as the registry and the vault cleanup read it
StoredProfile(id, auth) == [id |-> id, auth |-> auth]

\* profiles.value.find((item) => item.id === profileId) is not null
InProfiles(p) == \E i \in 1..Len(profiles) : profiles[i].id = p

\* the profile found; the first of that id
FindProfile(p) ==
    profiles[CHOOSE i \in 1..Len(profiles) :
               /\ profiles[i].id = p
               /\ \A j \in 1..(i - 1) : profiles[j].id # p]

\* ProfileState (stores/profiles): what saveProfileState writes
ProfileState(list, active) == [profiles |-> list, activeProfileId |-> active]

\* the credential vault: the references of the secrets in the stronghold
\* and the references listed in the index (credentialVault.ts loadIndex)
Vault(references) == [items |-> references, index |-> references]

CredentialReferences == {"cred_1", "cred_2"}

\* a cell value: null, a number, a string, or an array of cell values
NullCell == [type |-> "null", number |-> 0, text |-> "", items |-> <<>>]
NumberCell(n) == [type |-> "number", number |-> n, text |-> "", items |-> <<>>]
StringCell(t) == [type |-> "string", number |-> 0, text |-> t, items |-> <<>>]
ArrayCell(items) == [type |-> "array", number |-> 0, text |-> "", items |-> items]
NoCell == NullCell
\* formatCellValue has not been applied
NotFormatted == [applied |-> FALSE, text |-> <<>>]

\* no addProfile or updateProfile is between its first line and its finally
NoSaving ==
    [stage |-> "idle", kind |-> "none", p |-> NoName,
     state |-> ProfileState(<<>>, NoName), used |-> {}, pending |-> {}]

\* no deleteProfile is between its first line and its finally
NoDeletion ==
    [stage |-> "idle", p |-> NoName, reference |-> "",
     state |-> ProfileState(<<>>, NoName), used |-> {}, pending |-> {},
     removed |-> 0]

\* toConnectProfile (models/profile.ts), as far as auth goes, then line 109:
\* an absent auth becomes { type: "none" }, any other goes as stored
ConnectAuth(profile) ==
    IF profile.auth = NoAuth THEN AuthNone ELSE profile.auth

\* setStatus / setError / clearMessages of useStatusMessages
setStatus(m) == statusMessage' = m /\ errorMessage' = NoMessage
setError(m) == errorMessage' = m /\ statusMessage' = NoMessage
clearMessages == statusMessage' = NoMessage /\ errorMessage' = NoMessage

\* the lane invocations accepted so far
Accepted == nextId["p1"] + nextId["p2"] + nextId["gone"] - 3

----------------------------------------------------------------------------
(* The envelope protocol: ipc/v1.ts and lib/tauriClient.ts *)

\* `undefined`: an absent data, error or message
Undefined == "<undefined>"

\* ErrorEnvelope; an absent error is the one whose fields are absent
\* (`envelope.error?.message` is undefined for both)
ErrorEnvelope(code, message) == [code |-> code, message |-> message]
NoError == ErrorEnvelope(Undefined, Undefined)

\* ResultEnvelope<T>
ResultEnvelope(apiVersion, ok, data, error) ==
    [apiVersion |-> apiVersion, ok |-> ok, data |-> data, error |-> error]

\* what a call yields: a value returned, or an Error thrown with a message
Returned(value) == [threw |-> FALSE, value |-> value, message |-> Undefined]
Thrown(message) == [threw |-> TRUE, value |-> Undefined, message |-> message]

\* `a ?? b`
Coalesce(a, b) == IF a = Undefined THEN b ELSE a

\* unwrapEnvelope as it would be if it fell back on a blank message too
unwrapEnvelope_BlankChecked(e) ==
    IF ~e.ok \/ e.data = Undefined
      THEN Thrown(IF e.error.message \in {Undefined, ""}
                    THEN "unknown error" ELSE e.error.message)
      ELSE Returned(e.data)

\* unwrapEnvelope, lines 94-100
unwrapEnvelope(e) ==
    IF ~e.ok \/ e.data = Undefined
      THEN Thrown(Coalesce(e.error.message, "unknown error"))
      ELSE Returned(e.data)

\* `null` of nextOffset and resultNextOffset, and an absent nextOffset of a
\* response (`response.nextOffset ?? null`)
NoOffset == -1

\* the outcome of unwrapEnvelope on the envelope at hand, if it was applied
Unwrapped(result) == [applied |-> TRUE, result |-> result]
NotUnwrapped == [applied |-> FALSE, result |-> Returned(Undefined)]

\* what invoke can reject with: an Error, a string, an object (with or
\* without a message), null, undefined, or an object JSON.stringify throws on
Rejection(type, message) == [type |-> type, message |-> message]

\* String.prototype.trim on the messages drawn
Trim(m) == IF m = " " THEN "" ELSE m

\* JSON.stringify inside `new Error(...)`: the text of an object, "null" for
\* null, and undefined for undefined, which Error turns into the empty message
JsonStringify(r) ==
    CASE r.type = "null" -> "null"
      [] r.type = "undefined" -> ""
      [] OTHER -> "{json}"

\* normalizeInvokeError, lines 66-84: the message of the Error it returns
normalizeInvokeError(r, fallback) ==
    CASE r.type = "Error" -> r.message
      [] r.type = "string" -> r.message
      [] r.type = "object" /\ r.message # Undefined /\ Trim(r.message) # "" ->
           r.message
      [] r.type = "circular" -> fallback
      [] OTHER -> JsonStringify(r)

\* a failed driver call: an envelope unwrapEnvelope throws on, or a rejection
\* of invoke
EnvelopeFailure(e) ==
    [kind |-> "envelope", envelope |-> e,
     rejection |-> Rejection("none", Undefined)]
InvokeFailure(r) ==
    [kind |-> "rejection", envelope |-> ResultEnvelope("v1", FALSE, Undefined, NoError),
     rejection |-> r]

\* the message of the Error the lane catches: invokeV1 (lines 86-92) turns a
\* rejection into an Error, unwrapEnvelope throws one
CaughtMessage(f) ==
    IF f.kind = "envelope"
      THEN unwrapEnvelope(f.envelope).message
      ELSE normalizeInvokeError(f.rejection, "invoke failed")

\* the messages a driver error can carry
DriverMessages == {"boom", "", " "}

\* the envelopes a failed call can answer with: ok false with an error, with
\* or without a message, and ok true without data
FailingEnvelopes ==
    {ResultEnvelope("v1", FALSE, Undefined, ErrorEnvelope("internal", m)) :
        m \in DriverMessages \cup {Undefined}}
    \cup {ResultEnvelope("v1", TRUE, Undefined, NoError)}

\* the values invoke can reject with
Rejections ==
    {Rejection(type, m) : type \in {"Error", "string", "object"},
                          m \in DriverMessages}
    \cup {Rejection(type, Undefined) :
             type \in {"object", "null", "undefined", "circular"}}

\* every failure of a driver call
AllFailures ==
    {EnvelopeFailure(e) : e \in FailingEnvelopes}
    \cup {InvokeFailure(r) : r \in Rejections}

\* the failure drawn where the message does not matter: an error envelope
\* with a message
Failures ==
    {EnvelopeFailure(ResultEnvelope("v1", FALSE, Undefined,
                                    ErrorEnvelope("internal", "boom")))}

\* no failure: the call succeeded
NoFailure == EnvelopeFailure(ResultEnvelope("v1", TRUE, "data", NoError))

\* the catch of a lane (lines 114-116, 136-138, 162-164): the thrown value is
\* an Error, its message goes to onError
ReportFailure(f) == setError(CaughtMessage(f))

----------------------------------------------------------------------------
(* The lane guards *)

\* the connect guard as it would be without the check of line 101
ConnectBusy_Never(s) == FALSE
\* the connect guard as it would be with one flag for all profiles
ConnectBusy_AnyProfile(s) == \E q \in DOMAIN conn : conn[q].isConnecting
\* the open guard as it would be without the check of line 150
OpenBusy_Never(s) == FALSE

ConnectBusy(s) == s.isConnecting
RefreshBusy(s) == s.isRefreshing
OpenBusy(s) == s.isOpening
HasHandle(s) == s.connectionId # NoId

----------------------------------------------------------------------------
\* The profile list has been loaded and the watcher of lines 61-69 has made a
\* state for every profile in it; "gone" was in the list then and has been
\* deleted since, and the map never drops an entry.
RegistryInit ==
    /\ profiles = <<StoredProfile("p1", SecretRef("cred_1")),
                    StoredProfile("p2", AuthNone)>>
    /\ activeProfileId = "p1"
    /\ isSavingProfile = FALSE
    /\ conn = [p \in ProfileIds |-> createConnectionState]
    /\ calls = {}
    /\ nextId = [p \in ProfileIds |-> 1]
    /\ statusMessage = NoMessage
    /\ errorMessage = NoMessage
    /\ last = Step("noop", NoName, 0, NoName, NoId, FALSE, FALSE, FALSE)

\* no envelope is being looked at
EnvelopeIdle ==
    /\ envelope = ResultEnvelope("v1", TRUE, Undefined, NoError)
    /\ unwrapped = NotUnwrapped

\* the views as mounted (ExplorerView.vue 48-55, SearchView.vue 166-201)
ViewsMounted ==
    /\ explorer = [dataRows |-> <<>>, nextOffset |-> NoOffset, scanError |-> NoMessage,
                   isScanning |-> FALSE, offset |-> 0]
    /\ search = [resultRows |-> <<>>, resultSchema |-> NoId,
                 resultNextOffset |-> NoOffset, resultError |-> NoMessage,
                 isSearching |-> FALSE]
    /\ queries = {}

\* no cell is being formatted
FormatIdle ==
    /\ cell = NoCell
    /\ formatted = NotFormatted

\* selectProfile is not awaiting the store
SidebarIdle == saves = {}

\* no dialog has sent an event, and no addProfile or updateProfile is under way
EventsIdle ==
    /\ events = [sent |-> 0, inflight |-> {}]
    /\ saving = NoSaving

\* nothing of what the specifications further down touch is under way
AuxIdle == FormatIdle /\ SidebarIdle /\ EventsIdle

\* the vault holds two credentials, in the stronghold and in its index; the
\* store file holds the profile list as loaded; no deleteProfile is under way
StoreLoaded ==
    /\ vault = Vault(CredentialReferences)
    /\ persisted = ProfileState(profiles, activeProfileId)
    /\ deletion = NoDeletion
    /\ AuxIdle

Init ==
    /\ RegistryInit
    /\ EnvelopeIdle
    /\ ViewsMounted
    /\ StoreLoaded

----------------------------------------------------------------------------
(* connectProfile(profileId) *)

\* lines 95-99: the profile is not in the list
ConnectProfileMissing(p) ==
    /\ ~InProfiles(p)
    /\ setError("profile missing")
    /\ last' = Step("noop", NoName, 0, NoName, NoId, FALSE, FALSE, FALSE)
    /\ UNCHANGED <<profileVars, outerVars, conn, calls, nextId>>

\* lines 100-103: a connect is in flight, the request returns at once
ConnectProfileBusy(p) ==
    /\ InProfiles(p)
    /\ ConnectBusy(getState(p))
    /\ conn' = Store(p, getState(p))
    /\ last' = Step("connectDropped", p, 0, NoName, NoId, FALSE, FALSE, FALSE)
    /\ UNCHANGED <<profileVars, outerVars, messageVars, calls, nextId>>

\* lines 105-110: flag set, state reset, connect_v1 issued
ConnectProfileStart(p) ==
    /\ InProfiles(p)
    /\ ~ConnectBusy(getState(p))
    /\ Accepted < MaxCalls
    /\ conn' = Store(p, [ResetState(getState(p)) EXCEPT !.isConnecting = TRUE])
    /\ calls' = calls \cup
         {[Call(nextId[p], p, "connect", "connectV1", NoId, NoName, NoId, FALSE)
             EXCEPT !.auth = ConnectAuth(FindProfile(p))]}
    /\ nextId' = [nextId EXCEPT ![p] = @ + 1]
    /\ last' = Step("connectProfile", p, nextId[p], NoName, NoId, TRUE, FALSE, FALSE)
    /\ UNCHANGED <<profileVars, outerVars, messageVars>>

connectProfile(p) ==
    \/ ConnectProfileMissing(p)
    \/ ConnectProfileBusy(p)
    \/ ConnectProfileStart(p)

\* the failure of connect_v1 as it would be handled if connectProfile issued
\* the call again instead of giving up
ConnectResponseError_Retries(c, f) ==
    /\ c \in calls /\ c.lane = "connect" /\ c.stage = "connectV1"
    /\ ReportFailure(f)
    /\ conn' = conn
    /\ calls' = calls
    /\ last' = Step("connectFailed", c.p, c.uid, NoName, NoId, FALSE, FALSE, c.overtaken)
    /\ UNCHANGED <<profileVars, outerVars, nextId>>

\* lines 110, 114-119: connect_v1 rejected, or its envelope not ok
ConnectResponseError(c, f) ==
    /\ c \in calls /\ c.lane = "connect" /\ c.stage = "connectV1"
    /\ ReportFailure(f)
    /\ conn' = [conn EXCEPT ![c.p].isConnecting = FALSE]
    /\ calls' = calls \ {c}
    /\ last' = Step("connectFailed", c.p, c.uid, NoName, NoId, FALSE, FALSE, c.overtaken)
    /\ UNCHANGED <<profileVars, outerVars, nextId>>

\* lines 110-113 with refreshTables lines 123-130: the handle is stored, then
\* refreshTables returns at once because a refresh is in flight; the finally
\* of line 118 follows
ConnectResponseOkRefreshBusy(c) ==
    /\ c \in calls /\ c.lane = "connect" /\ c.stage = "connectV1"
    /\ RefreshBusy(conn[c.p])
    /\ setStatus("connected")
    /\ conn' = [conn EXCEPT ![c.p].connectionId = ConnectionIdOf(c),
                            ![c.p].isConnecting = FALSE]
    /\ calls' = calls \ {c}
    /\ last' = Step("connectDone", c.p, c.uid, NoName, ConnectionIdOf(c),
                    TRUE, FALSE, c.overtaken)
    /\ UNCHANGED <<profileVars, outerVars, nextId>>

\* lines 110-113 with refreshTables lines 123-134: the handle is stored and
\* list_tables_v1 is issued with it
ConnectResponseOkRefresh(c) ==
    /\ c \in calls /\ c.lane = "connect" /\ c.stage = "connectV1"
    /\ ~RefreshBusy(conn[c.p])
    /\ setStatus("connected")
    /\ conn' = [conn EXCEPT ![c.p].connectionId = ConnectionIdOf(c),
                            ![c.p].isRefreshing = TRUE]
    /\ calls' = (calls \ {c}) \cup
         {[c EXCEPT !.stage = "refreshTables", !.connId = ConnectionIdOf(c)],
          Call(c.uid, c.p, "refresh", "listTablesV1", ConnectionIdOf(c), NoName,
               NoId, TRUE)}
    /\ last' = Step("connectResponse", c.p, c.uid, NoName, ConnectionIdOf(c),
                    TRUE, TRUE, c.overtaken)
    /\ UNCHANGED <<profileVars, outerVars, nextId>>

----------------------------------------------------------------------------
(* refreshTables(profileId) *)

\* lines 123-130: no handle, or a refresh in flight
RefreshTablesNoop(p) ==
    /\ ~HasHandle(getState(p)) \/ RefreshBusy(getState(p))
    /\ conn' = Store(p, getState(p))
    /\ last' = IF RefreshBusy(getState(p))
                 THEN Step("refreshDropped", p, 0, NoName, NoId, FALSE, FALSE, FALSE)
                 ELSE Step("noop", NoName, 0, NoName, NoId, FALSE, FALSE, FALSE)
    /\ UNCHANGED <<profileVars, outerVars, messageVars, calls, nextId>>

\* lines 132-134: flag set, list_tables_v1 issued with the handle read at
\* line 124
RefreshTablesStart(p) ==
    /\ HasHandle(getState(p))
    /\ ~RefreshBusy(getState(p))
    /\ Accepted < MaxCalls
    /\ conn' = Store(p, [getState(p) EXCEPT !.isRefreshing = TRUE])
    /\ calls' = calls \cup
         {Call(nextId[p], p, "refresh", "listTablesV1", getState(p).connectionId,
               NoName, NoId, FALSE)}
    /\ nextId' = [nextId EXCEPT ![p] = @ + 1]
    /\ last' = Step("refreshTables", p, nextId[p], NoName, getState(p).connectionId,
                    TRUE, FALSE, FALSE)
    /\ UNCHANGED <<profileVars, outerVars, messageVars>>

refreshTables(p) == RefreshTablesNoop(p) \/ RefreshTablesStart(p)

\* refreshTables as it would be if it merged the response into the list
ReplaceTables_Merged(old, tbls) == old \cup tbls

\* line 135: the list is assigned, whatever it held before
ReplaceTables(old, tbls) == tbls

\* the connectProfile invocation that awaits refresh call c, if any
Awaiting(c) ==
    {k \in calls : k.p = c.p /\ k.lane = "connect" /\ k.uid = c.uid
                   /\ k.stage = "refreshTables" /\ c.chained}

\* lines 134-141: the list response of a refresh a caller asked for
ListTablesResponse(c, ok, tbls, f) ==
    /\ c \in calls /\ c.lane = "refresh" /\ ~c.chained
    /\ IF ok
         THEN /\ conn' = [conn EXCEPT ![c.p].tables = ReplaceTables(@, tbls),
                                      ![c.p].isRefreshing = FALSE]
              /\ UNCHANGED messageVars
         ELSE /\ tbls = {}
              /\ conn' = [conn EXCEPT ![c.p].isRefreshing = FALSE]
              /\ ReportFailure(f)
    /\ calls' = calls \ {c}
    /\ last' = [Step("refreshDone", c.p, c.uid, NoName, c.connId, ok, FALSE, FALSE)
                   EXCEPT !.tables = tbls,
                          !.replaced = IF ok THEN conn[c.p].tables ELSE {}]
    /\ UNCHANGED <<profileVars, outerVars, nextId>>

\* lines 134-141, then connectProfile line 118: the list response of the
\* refresh that connectProfile awaits
ChainedListTablesResponse(c, ok, tbls, f) ==
    /\ c \in calls /\ c.lane = "refresh" /\ c.chained
    /\ IF ok
         THEN /\ conn' = [conn EXCEPT ![c.p].tables = ReplaceTables(@, tbls),
                                      ![c.p].isRefreshing = FALSE,
                                      ![c.p].isConnecting = FALSE]
              /\ UNCHANGED messageVars
         ELSE /\ tbls = {}
              /\ conn' = [conn EXCEPT ![c.p].isRefreshing = FALSE,
                                      ![c.p].isConnecting = FALSE]
              /\ ReportFailure(f)
    /\ calls' = (calls \ {c}) \ Awaiting(c)
    /\ last' = [Step("connectDone", c.p, c.uid, NoName, c.connId, ok, TRUE, FALSE)
                   EXCEPT !.tables = tbls,
                          !.replaced = IF ok THEN conn[c.p].tables ELSE {}]
    /\ UNCHANGED <<profileVars, outerVars, nextId>>

----------------------------------------------------------------------------
(* openTable(profileId, name) *)

\* lines 145-152: no handle, or an open in flight
OpenTableNoop(p, name) ==
    /\ ~HasHandle(getState(p)) \/ OpenBusy(getState(p))
    /\ conn' = Store(p, getState(p))
    /\ last' = IF OpenBusy(getState(p))
                 THEN Step("openDropped", p, 0, NoName, NoId, FALSE, FALSE, FALSE)
                 ELSE Step("noop", NoName, 0, NoName, NoId, FALSE, FALSE, FALSE)
    /\ UNCHANGED <<profileVars, outerVars, messageVars, calls, nextId>>

\* lines 154-159: flag set, name stored, id and schema cleared, open_table_v1
\* issued
OpenTableStart(p, name) ==
    /\ HasHandle(getState(p))
    /\ ~OpenBusy(getState(p))
    /\ Accepted < MaxCalls
    /\ conn' = Store(p, [getState(p) EXCEPT !.isOpening = TRUE,
                                            !.activeTableName = name,
                                            !.activeTableId = NoId,
                                            !.schema = NoId])
    /\ calls' = calls \cup
         {Call(nextId[p], p, "open", "openTableV1", getState(p).connectionId, name,
               NoId, FALSE)}
    /\ nextId' = [nextId EXCEPT ![p] = @ + 1]
    /\ last' = Step("openTable", p, nextId[p], name, NoId, TRUE, FALSE, FALSE)
    /\ UNCHANGED <<profileVars, outerVars, messageVars>>

openTable(p, name) == OpenTableNoop(p, name) \/ OpenTableStart(p, name)

\* lines 159-161: the table id is stored and get_schema_v1 issued with it
OpenTableResponseOk(c) ==
    /\ c \in calls /\ c.lane = "open" /\ c.stage = "openTableV1"
    /\ conn' = [conn EXCEPT ![c.p].activeTableId = TableIdOf(c)]
    /\ calls' = (calls \ {c}) \cup
         {[c EXCEPT !.stage = "getSchemaV1", !.tableId = TableIdOf(c)]}
    /\ last' = Step("openResponse", c.p, c.uid, c.name, TableIdOf(c), TRUE,
                    FALSE, FALSE)
    /\ UNCHANGED <<profileVars, outerVars, messageVars, nextId>>

\* lines 159, 162-167: open_table_v1 failed
OpenTableResponseError(c, f) ==
    /\ c \in calls /\ c.lane = "open" /\ c.stage = "openTableV1"
    /\ conn' = [conn EXCEPT ![c.p].isOpening = FALSE]
    /\ ReportFailure(f)
    /\ calls' = calls \ {c}
    /\ last' = Step("openFailed", c.p, c.uid, c.name, NoId, FALSE, FALSE, FALSE)
    /\ UNCHANGED <<profileVars, outerVars, nextId>>

\* lines 161, 165-167: the schema is stored
GetSchemaResponseOk(c) ==
    /\ c \in calls /\ c.lane = "open" /\ c.stage = "getSchemaV1"
    /\ conn' = [conn EXCEPT ![c.p].schema = SchemaOf(c.tableId),
                            ![c.p].isOpening = FALSE]
    /\ calls' = calls \ {c}
    /\ last' = Step("openDone", c.p, c.uid, c.name, c.tableId, TRUE, FALSE, FALSE)
    /\ UNCHANGED <<profileVars, outerVars, messageVars, nextId>>

\* the failure of get_schema_v1 as it would be handled without the finally of
\* lines 165-167
GetSchemaResponseError_NoFinally(c, f) ==
    /\ c \in calls /\ c.lane = "open" /\ c.stage = "getSchemaV1"
    /\ conn' = conn
    /\ ReportFailure(f)
    /\ calls' = calls \ {c}
    /\ last' = Step("openFailed", c.p, c.uid, c.name, c.tableId, FALSE, FALSE,
                    FALSE)
    /\ UNCHANGED <<profileVars, outerVars, nextId>>

\* lines 161-167: get_schema_v1 failed
GetSchemaResponseError(c, f) ==
    /\ c \in calls /\ c.lane = "open" /\ c.stage = "getSchemaV1"
    /\ conn' = [conn EXCEPT ![c.p].isOpening = FALSE]
    /\ ReportFailure(f)
    /\ calls' = calls \ {c}
    /\ last' = Step("openFailed", c.p, c.uid, c.name, c.tableId, FALSE, FALSE,
                    FALSE)
    /\ UNCHANGED <<profileVars, outerVars, nextId>>

----------------------------------------------------------------------------
(* resetConnection(profileId) *)

\* history: the connect_v1 calls of p in flight are marked
Overtake(p) ==
    {IF c.p = p /\ c.lane = "connect" /\ c.stage = "connectV1"
       THEN [c EXCEPT !.overtaken = TRUE] ELSE c : c \in calls}

\* lines 85-92, called by a component through the workspace context (the
\* sidebar calls it before deleteProfile)
resetConnection(p) ==
    /\ conn' = Store(p, ResetState(getState(p)))
    /\ calls' = Overtake(p)
    /\ last' = Step("resetConnection", NoName, 0, NoName, NoId, TRUE, FALSE, FALSE)
    /\ UNCHANGED <<profileVars, outerVars, messageVars, nextId>>

----------------------------------------------------------------------------
Next ==
    \/ \E p \in ProfileIds : connectProfile(p)
    \/ \E p \in ProfileIds : refreshTables(p)
    \/ \E p \in ProfileIds, name \in TableNames : openTable(p, name)
    \/ \E p \in ProfileIds : resetConnection(p)
    \/ \E c \in calls, f \in Failures : ConnectResponseError(c, f)
    \/ \E c \in calls : ConnectResponseOkRefreshBusy(c)
    \/ \E c \in calls : ConnectResponseOkRefresh(c)
    \/ \E c \in calls, ok \in BOOLEAN, tbls \in TableLists,
          f \in Failures \cup {NoFailure} :
          (ok <=> f = NoFailure) /\ ListTablesResponse(c, ok, tbls, f)
    \/ \E c \in calls, ok \in BOOLEAN, tbls \in TableLists,
          f \in Failures \cup {NoFailure} :
          (ok <=> f = NoFailure) /\ ChainedListTablesResponse(c, ok, tbls, f)
    \/ \E c \in calls : OpenTableResponseOk(c)
    \/ \E c \in calls, f \in Failures : OpenTableResponseError(c, f)
    \/ \E c \in calls : GetSchemaResponseOk(c)
    \/ \E c \in calls, f \in Failures : GetSchemaResponseError(c, f)

Spec == Init /\ [][Next]_vars

\* the driver answers call c, with a result or with a failure of F
RespondWith(c, F) ==
    \/ \E f \in F : ConnectResponseError(c, f)
    \/ ConnectResponseOkRefreshBusy(c)
    \/ ConnectResponseOkRefresh(c)
    \/ \E ok \in BOOLEAN, tbls \in TableLists, f \in F \cup {NoFailure} :
          (ok <=> f = NoFailure) /\ ListTablesResponse(c, ok, tbls, f)
    \/ \E ok \in BOOLEAN, tbls \in TableLists, f \in F \cup {NoFailure} :
          (ok <=> f = NoFailure) /\ ChainedListTablesResponse(c, ok, tbls, f)
    \/ OpenTableResponseOk(c)
    \/ \E f \in F : OpenTableResponseError(c, f)
    \/ GetSchemaResponseOk(c)
    \/ \E f \in F : GetSchemaResponseError(c, f)

Respond(c) == RespondWith(c, Failures)

Lanes == {"connect", "refresh", "open"}

\* every driver call in flight is answered: the promise of an invoke settles
\* and the event loop then runs the continuation that awaits it
DriverAnswers ==
    \A p \in ProfileIds, lane \in Lanes :
        WF_vars(\E c \in calls : c.p = p /\ c.lane = lane /\ Respond(c))

\* The lanes of one profile in the list, and the requests for an id that is
\* not in it: the flags of a profile are set and cleared by its own lanes alone.
LiveProfileIds == {"p1", "gone"}

LiveNext ==
    \/ \E p \in LiveProfileIds : connectProfile(p)
    \/ \E p \in LiveProfileIds : refreshTables(p)
    \/ \E p \in LiveProfileIds, name \in TableNames : openTable(p, name)
    \/ \E p \in LiveProfileIds : resetConnection(p)
    \/ \E c \in calls : Respond(c)

FairSpec == Init /\ [][LiveNext]_vars /\ DriverAnswers

\* the lanes of one profile with every failure a driver call can end in
FailureNext ==
    \/ \E p \in LiveProfileIds : connectProfile(p)
    \/ \E p \in LiveProfileIds : refreshTables(p)
    \/ \E p \in LiveProfileIds, name \in TableNames : openTable(p, name)
    \/ \E p \in LiveProfileIds : resetConnection(p)
    \/ \E c \in calls : RespondWith(c, AllFailures)

FailureSpec == Init /\ [][FailureNext]_vars

----------------------------------------------------------------------------
(* unwrapEnvelope on every envelope *)

\* the tags, payloads and errors an envelope on the wire can have; the type
\* ApiVersion admits "v1" only, the wire any string
ApiVersions == {"v1", "v2", ""}
Payloads == {"rows", "null", ""}
ErrorCodes == {"internal", "not_found"}
Envelopes ==
    {ResultEnvelope(v, ok, data, error) :
        v \in ApiVersions, ok \in BOOLEAN, data \in Payloads \cup {Undefined},
        error \in {NoError} \cup
                  {ErrorEnvelope(code, m) :
                      code \in ErrorCodes, m \in DriverMessages \cup {Undefined}}}

EnvelopeInit ==
    /\ RegistryInit
    /\ ViewsMounted
    /\ StoreLoaded
    /\ envelope \in Envelopes
    /\ unwrapped = NotUnwrapped

\* a consumer applies unwrapEnvelope to the envelope
Unwrap ==
    /\ ~unwrapped.applied
    /\ unwrapped' = Unwrapped(unwrapEnvelope(envelope))
    /\ UNCHANGED <<profileVars, messageVars, viewVars, storeVars, auxVars, conn, calls,
                   nextId, last, envelope>>

EnvelopeNext == Unwrap

EnvelopeSpec == EnvelopeInit /\ [][EnvelopeNext]_vars

----------------------------------------------------------------------------
(* Properties *)

\* the invocations of a lane in flight for a profile
InFlight(p, lane) == {c \in calls : c.p = p /\ c.lane = lane}

BusyFlags(s) ==
    {f \in {"isConnecting", "isRefreshing", "isOpening"} : s[f]}

\* C1 as stated: in every reachable state at most one busy flag of a profile's
\* ConnectionState is true.
C1_AtMostOneBusyFlag ==
    \A p \in DOMAIN conn : Cardinality(BusyFlags(conn[p])) <= 1

\* C1 amended: each busy flag of a profile is true exactly while an invocation
\* of its own lane is in flight for that profile; flags of different lanes can
\* be true together.
C1_FlagIffLaneInFlight ==
    \A p \in DOMAIN conn :
        /\ conn[p].isConnecting <=> InFlight(p, "connect") # {}
        /\ conn[p].isRefreshing <=> InFlight(p, "refresh") # {}
        /\ conn[p].isOpening <=> InFlight(p, "open") # {}

\* C1 witness: connectProfile awaits the refresh it started, both flags true
C1_Witness ==
    \E p \in DOMAIN conn :
        /\ conn[p].isConnecting /\ conn[p].isRefreshing
        /\ last.op = "connectResponse" /\ last.p = p

\* C2: for every profile and lane at most one invocation, hence at most one
\* driver call, of that lane is in flight.
C2_OneCallPerLane ==
    \A p \in DOMAIN conn : \A lane \in {"connect", "refresh", "open"} :
        Cardinality(InFlight(p, lane)) <= 1

\* C2 witness: a second openTable arrived while one was in flight
C2_Witness ==
    /\ last.op = "openDropped"
    /\ Cardinality(InFlight(last.p, "open")) = 1

\* C3: a request made while the flag of its lane is true changes no field of
\* any ConnectionState, issues no call and leaves nothing behind to run later.
C3_Dropped ==
    /\ conn' = conn
    /\ calls' = calls
    /\ nextId' = nextId
    /\ UNCHANGED messageVars

\* the step is a request of the lane, accepted or not, for a profile whose
\* flag of that lane is true
C3_BusyRequest ==
    \/ /\ last'.op \in {"connectProfile", "connectDropped"}
       /\ conn[last'.p].isConnecting
    \/ /\ last'.op \in {"refreshTables", "refreshDropped"}
       /\ conn[last'.p].isRefreshing
    \/ /\ last'.op \in {"openTable", "openDropped"}
       /\ conn[last'.p].isOpening

C3_BusyRequestDropped == [][C3_BusyRequest => C3_Dropped]_vars

\* C3 witness: a connectProfile was dropped while a connect was in flight
C3_Witness ==
    /\ last.op = "connectDropped"
    /\ conn[last.p].isConnecting
    /\ InFlight(last.p, "connect") # {}

\* C4 as stated: a schema is never present without an active table id.
C4_SchemaImpliesTableId ==
    \A p \in DOMAIN conn :
        conn[p].schema # NoId => conn[p].activeTableId # NoId

\* C5 as stated: when a connectProfile whose connect_v1 failed has completed,
\* the handle is null and every busy flag is false.
C5_FailedConnectAllIdle ==
    last.op = "connectFailed" =>
        /\ conn[last.p].connectionId = NoId
        /\ BusyFlags(conn[last.p]) = {}

\* C5 amended: when a connectProfile whose connect_v1 failed has completed, the
\* handle is null and isConnecting is false; isRefreshing or isOpening is true
\* only if a refresh or open started before the connect is still in flight.
C5_FailedConnectHandleNull ==
    last.op = "connectFailed" =>
        /\ conn[last.p].connectionId = NoId
        /\ ~conn[last.p].isConnecting
        /\ conn[last.p].isRefreshing => InFlight(last.p, "refresh") # {}
        /\ conn[last.p].isOpening => InFlight(last.p, "open") # {}

\* C5 witness: a reconnect failed while a refresh of the former connection
\* was still in flight
C5_Witness ==
    /\ last.op = "connectFailed"
    /\ conn[last.p].isRefreshing
    /\ conn[last.p].connectionId = NoId

\* C6 as stated: a connectProfile whose connect_v1 succeeded has requested the
\* table list with the new connection id before it completes, and no list
\* request carries an empty handle.
C6_ConnectThenList ==
    /\ last.op = "connectDone" => last.listed
    /\ \A c \in calls : c.lane = "refresh" => c.connId # NoId

\* C7 as stated: the result of a connect that was in flight when
\* resetConnection ran is not installed as the handle.
C7_NoStaleHandle ==
    last.stale => conn[last.p].connectionId = NoId

\* C8: a step on one profile leaves the ConnectionState of every other
\* profile as it was, and a request is dropped or accepted by the flags and
\* handle of its own profile alone.
C8_Frame ==
    /\ Cardinality({b \in ProfileIds : conn'[b] # conn[b]}) <= 1
    /\ last'.p # NoName =>
         \A b \in ProfileIds \ {last'.p} : conn'[b] = conn[b]

C8_OwnState ==
    /\ last'.op = "connectDropped" => conn[last'.p].isConnecting
    /\ last'.op = "refreshDropped" => conn[last'.p].isRefreshing
    /\ last'.op = "openDropped" => conn[last'.p].isOpening
    /\ last'.op = "connectProfile" => ~conn[last'.p].isConnecting
    /\ last'.op = "refreshTables" =>
         conn[last'.p].connectionId # NoId /\ ~conn[last'.p].isRefreshing
    /\ last'.op = "openTable" =>
         conn[last'.p].connectionId # NoId /\ ~conn[last'.p].isOpening

C8_Independent == [][C8_Frame /\ C8_OwnState]_vars

\* C8 witness: a connectProfile was accepted while another profile was in the
\* middle of a connect and of a refresh
C8_Witness ==
    /\ last.op = "connectProfile"
    /\ conn[last.p].isConnecting
    /\ \E b \in ProfileIds \ {last.p} :
         conn[b].isConnecting /\ conn[b].isRefreshing

\* C9 as stated: an accepted openTable stores the name and clears the table id
\* and the schema in the same step; when open_table_v1 and get_schema_v1 have
\* both succeeded the table id is the one open_table_v1 returned and the schema
\* is the one get_schema_v1 returned for that id.
C9_OpenTableResult ==
    /\ last.op = "openTable" =>
         /\ conn[last.p].activeTableName = last.name
         /\ conn[last.p].activeTableId = NoId
         /\ conn[last.p].schema = NoId
    /\ last.op = "openDone" =>
         /\ conn[last.p].activeTableId = last.id
         /\ conn[last.p].schema = SchemaOf(last.id)

\* C10 as stated: when an openTable has failed, at open_table_v1 or at
\* get_schema_v1, the name is the one asked for, the table id and the schema
\* are null and isOpening is false.
C10_OpenTableFailure ==
    last.op = "openFailed" =>
        /\ conn[last.p].activeTableName = last.name
        /\ conn[last.p].activeTableId = NoId
        /\ conn[last.p].schema = NoId
        /\ ~conn[last.p].isOpening

\* C11: a refreshTables request for a profile without a connection id, or with
\* isRefreshing true, is never accepted and the step changes no ConnectionState
\* and issues no call; when a list call succeeds the profile's table list is
\* exactly the list the driver returned.
C11_Step ==
    /\ last'.op = "refreshTables" =>
         /\ conn[last'.p].connectionId # NoId
         /\ ~conn[last'.p].isRefreshing
    /\ last'.op \in {"refreshDropped", "noop"} =>
         /\ conn' = conn
         /\ calls' = calls
         /\ nextId' = nextId
    /\ (last'.op \in {"refreshDone", "connectDone"} /\ last'.listed /\ last'.ok)
         \/ (last'.op = "refreshDone" /\ last'.ok) =>
         conn'[last'.p].tables = last'.tables

C11_RefreshTables == [][C11_Step]_vars

\* C11 witness: a refresh succeeded with an empty list where "items" was
\* listed before, and "items" is gone
C11_Witness ==
    /\ last.op = "refreshDone" /\ last.ok
    /\ last.replaced = {"items"}
    /\ last.tables = {}
    /\ conn[last.p].tables = {}

\* C12: if every driver call is answered, every busy flag that is true becomes
\* false again, for the connect, refresh and open lanes of every profile.
C12_BusyFlagsClear ==
    \A p \in ProfileIds :
        /\ conn[p].isConnecting ~> ~conn[p].isConnecting
        /\ conn[p].isRefreshing ~> ~conn[p].isRefreshing
        /\ conn[p].isOpening ~> ~conn[p].isOpening

\* C12 witness: an openTable whose get_schema_v1 failed has completed and
\* isOpening, set when it was accepted, is false again
C12_Witness ==
    /\ last.op = "openFailed" /\ last.id # NoId
    /\ ~conn[last.p].isOpening
    /\ InFlight(last.p, "open") = {}

\* C13 as stated: when a driver call of a lane has failed, the error callback
\* has been given a non-empty message.
C13_FailureReported ==
    \/ last.op \in {"connectFailed", "openFailed"}
    \/ last.op \in {"refreshDone", "connectDone"} /\ last.listed /\ ~last.ok
    \/ last.op = "refreshDone" /\ ~last.ok
    => errorMessage # NoMessage

\* C14 as stated: the connect request handed to the driver never carries an
\* auth descriptor of type secret_ref.
C14_NoSecretRefToDriver ==
    \A c \in calls : c.stage = "connectV1" => c.auth.type # "secret_ref"

----------------------------------------------------------------------------
(* The consumers of a DataChunk: runScan of ExplorerView.vue and            *)
(* runFilterQuery of SearchView.vue                                         *)

\* limit and filterLimit as mounted
ScanLimit == 50
\* the pages the pager can ask for
Pages == {1, 2}

\* DataChunk (ipc/v1.ts 264-276): the json variant has rows and schema, the
\* arrow variant has neither
JsonChunk(rows, schema) == [format |-> "json", rows |-> rows, schema |-> schema]
ArrowChunk == [format |-> "arrow", ipcBase64 |-> "QVJST1cx"]

\* ScanResponseV1 / QueryResponseV1
ChunkResponse(chunk, nextOffset) == [chunk |-> chunk, nextOffset |-> nextOffset]

RowLists == {<<>>, <<"r1">>, <<"r1", "r2">>}
ChunkResponses ==
    {ChunkResponse(chunk, n) :
        chunk \in {JsonChunk(rows, 7) : rows \in RowLists} \cup {ArrowChunk},
        n \in {NoOffset, ScanLimit}}

\* reading a field a variant does not have yields undefined
UndefinedRows == <<Undefined>>
ChunkRows(chunk) == IF "rows" \in DOMAIN chunk THEN chunk.rows ELSE UndefinedRows
ChunkSchema(chunk) == IF "schema" \in DOMAIN chunk THEN chunk.schema ELSE NoId

\* the consumers as they would be without the test of the tag
IsJsonChunk_Unchecked(chunk) == TRUE

\* `response.chunk.format !== "json"` (ExplorerView 257, SearchView 298)
IsJsonChunk(chunk) == chunk.format = "json"

\* activeTableId of the active connection; scopedActiveTableId of the search
\* view when the route names no profile
ActiveTableId ==
    IF activeProfileId \in DOMAIN conn THEN conn[activeProfileId].activeTableId
    ELSE NoId

\* a history record of a step of a view: the operation, and in the place of
\* the invocation number the count of the scans and queries answered so far
ViewStep(op, n) == Step(op, NoName, n, NoName, NoId, TRUE, FALSE, FALSE)

\* the scans and queries accepted so far: those in flight and those answered
Scans == Cardinality(queries) + last.uid

\* ExplorerView 238-241: no table id, or a scan in flight
RunScanNoop ==
    /\ ActiveTableId = NoId \/ explorer.isScanning
    /\ last' = [last EXCEPT !.op = "scanDropped"]
    /\ UNCHANGED <<profileVars, messageVars, envelopeVars, storeVars, auxVars, viewVars, conn, calls,
                   nextId>>

\* ExplorerView 243-254: flag set, error cleared, scan_v1 issued
RunScanStart ==
    /\ ActiveTableId # NoId
    /\ ~explorer.isScanning
    /\ Scans < MaxScans
    /\ explorer' = [explorer EXCEPT !.isScanning = TRUE, !.scanError = NoMessage]
    /\ queries' = queries \cup
         {[view |-> "explorer", tableId |-> ActiveTableId,
           offset |-> explorer.offset]}
    /\ last' = [last EXCEPT !.op = "runScan"]
    /\ UNCHANGED <<profileVars, messageVars, envelopeVars, storeVars, auxVars, search, conn, calls,
                   nextId>>

runScan == RunScanNoop \/ RunScanStart

\* ExplorerView 274-280: handlePageChange returns while a scan is in flight;
\* otherwise it sets the offset and calls runScan, which returns at once
\* when there is no table id
handlePageChange(page) ==
    /\ ~explorer.isScanning
    /\ IF ActiveTableId = NoId
         THEN /\ explorer' = [explorer EXCEPT !.offset = (page - 1) * ScanLimit]
              /\ last' = [last EXCEPT !.op = "scanDropped"]
              /\ UNCHANGED queries
         ELSE /\ Scans < MaxScans
              /\ explorer' = [explorer EXCEPT !.offset = (page - 1) * ScanLimit,
                                              !.isScanning = TRUE,
                                              !.scanError = NoMessage]
              /\ queries' = queries \cup
                   {[view |-> "explorer", tableId |-> ActiveTableId,
                     offset |-> (page - 1) * ScanLimit]}
              /\ last' = [last EXCEPT !.op = "runScan"]
    /\ UNCHANGED <<profileVars, messageVars, envelopeVars, storeVars, auxVars, search, conn, calls,
                   nextId>>

\* ExplorerView 246-264, 269-271: scan_v1 answered with a response
ScanResponseOk(q, r) ==
    /\ q \in queries /\ q.view = "explorer"
    /\ IF ~IsJsonChunk(r.chunk)
         THEN /\ explorer' = [explorer EXCEPT !.scanError = "json chunks only",
                                              !.isScanning = FALSE]
              /\ UNCHANGED messageVars
         ELSE IF ChunkRows(r.chunk) = UndefinedRows
           \* `response.chunk.rows.length` of line 264 throws, lines 265-268
           THEN /\ explorer' = [explorer EXCEPT !.dataRows = UndefinedRows,
                                                !.nextOffset = r.nextOffset,
                                                !.scanError = "TypeError",
                                                !.isScanning = FALSE]
                /\ setError("TypeError")
           ELSE /\ explorer' = [explorer EXCEPT !.dataRows = ChunkRows(r.chunk),
                                                !.nextOffset = r.nextOffset,
                                                !.isScanning = FALSE]
                /\ setStatus("rows loaded")
    /\ queries' = queries \ {q}
    /\ last' = [last EXCEPT !.op = IF r.chunk.format = "arrow" THEN "scanArrow"
                                   ELSE "scanJson",
                            !.uid = @ + 1]
    /\ UNCHANGED <<profileVars, envelopeVars, storeVars, auxVars, search, conn, calls, nextId>>

\* ExplorerView 265-271: scan_v1 failed
ScanResponseError(q, f) ==
    /\ q \in queries /\ q.view = "explorer"
    /\ explorer' = [explorer EXCEPT !.scanError = CaughtMessage(f),
                                    !.isScanning = FALSE]
    /\ ReportFailure(f)
    /\ queries' = queries \ {q}
    /\ last' = [last EXCEPT !.op = "scanFailed", !.uid = @ + 1]
    /\ UNCHANGED <<profileVars, envelopeVars, storeVars, auxVars, search, conn, calls, nextId>>

\* SearchView 281-284: no table id, or a search in flight
RunFilterQueryNoop ==
    /\ ActiveTableId = NoId \/ search.isSearching
    /\ last' = [last EXCEPT !.op = "queryDropped"]
    /\ UNCHANGED <<profileVars, messageVars, envelopeVars, storeVars, auxVars, viewVars, conn, calls,
                   nextId>>

\* SearchView 285-296: flag set, error and messages cleared, query_filter_v1
\* issued
RunFilterQueryStart ==
    /\ ActiveTableId # NoId
    /\ ~search.isSearching
    /\ Scans < MaxScans
    /\ search' = [search EXCEPT !.isSearching = TRUE, !.resultError = NoMessage]
    /\ clearMessages
    /\ queries' = queries \cup
         {[view |-> "search", tableId |-> ActiveTableId, offset |-> 0]}
    /\ last' = [last EXCEPT !.op = "runFilterQuery"]
    /\ UNCHANGED <<profileVars, envelopeVars, storeVars, auxVars, explorer, conn, calls, nextId>>

runFilterQuery == RunFilterQueryNoop \/ RunFilterQueryStart

\* SearchView 289-305, 310-312: query_filter_v1 answered with a response
QueryResponseOk(q, r) ==
    /\ q \in queries /\ q.view = "search"
    /\ IF ~IsJsonChunk(r.chunk)
         THEN /\ search' = [search EXCEPT !.resultError = "json chunks only",
                                          !.isSearching = FALSE]
              /\ UNCHANGED messageVars
         ELSE IF ChunkRows(r.chunk) = UndefinedRows
           \* `response.chunk.rows.length` of line 305 throws, lines 306-309
           THEN /\ search' = [search EXCEPT !.resultRows = UndefinedRows,
                                            !.resultSchema = ChunkSchema(r.chunk),
                                            !.resultNextOffset = r.nextOffset,
                                            !.resultError = "TypeError",
                                            !.isSearching = FALSE]
                /\ setError("TypeError")
           ELSE /\ search' = [search EXCEPT !.resultRows = ChunkRows(r.chunk),
                                            !.resultSchema = ChunkSchema(r.chunk),
                                            !.resultNextOffset = r.nextOffset,
                                            !.isSearching = FALSE]
                /\ setStatus("rows returned")
    /\ queries' = queries \ {q}
    /\ last' = [last EXCEPT !.op = IF r.chunk.format = "arrow" THEN "queryArrow"
                                   ELSE "queryJson",
                            !.uid = @ + 1]
    /\ UNCHANGED <<profileVars, envelopeVars, storeVars, auxVars, explorer, conn, calls, nextId>>

\* SearchView 306-312: query_filter_v1 failed
QueryResponseError(q, f) ==
    /\ q \in queries /\ q.view = "search"
    /\ search' = [search EXCEPT !.resultError = CaughtMessage(f),
                                !.isSearching = FALSE]
    /\ ReportFailure(f)
    /\ queries' = queries \ {q}
    /\ last' = [last EXCEPT !.op = "queryFailed", !.uid = @ + 1]
    /\ UNCHANGED <<profileVars, envelopeVars, storeVars, auxVars, explorer, conn, calls, nextId>>

\* a table of p1 is open (connect, list, open and schema have succeeded), and
\* either profile is the active one
ScanInit ==
    /\ profiles = <<StoredProfile("p1", AuthNone), StoredProfile("p2", AuthNone)>>
    /\ activeProfileId \in {"p1", "p2"}
    /\ isSavingProfile = FALSE
    /\ conn = [p \in {"p1", "p2"} |->
                 IF p = "p1"
                   THEN [createConnectionState EXCEPT
                           !.connectionId = 1, !.tables = {"items"},
                           !.activeTableName = "items", !.activeTableId = 2,
                           !.schema = SchemaOf(2)]
                   ELSE createConnectionState]
    /\ calls = {}
    /\ nextId = [p \in ProfileIds |-> IF p = "p1" THEN 3 ELSE 1]
    /\ statusMessage = "connected"
    /\ errorMessage = NoMessage
    /\ last = ViewStep("noop", 0)
    /\ EnvelopeIdle
    /\ ViewsMounted
    /\ StoreLoaded

ScanNext ==
    \/ runScan
    \/ \E page \in Pages : handlePageChange(page)
    \/ \E q \in queries, r \in ChunkResponses : ScanResponseOk(q, r)
    \/ \E q \in queries, f \in Failures : ScanResponseError(q, f)
    \/ runFilterQuery
    \/ \E q \in queries, r \in ChunkResponses : QueryResponseOk(q, r)
    \/ \E q \in queries, f \in Failures : QueryResponseError(q, f)

ScanSpec == ScanInit /\ [][ScanNext]_vars

\* C17: when the chunk of a scan or query response is tagged "arrow", the
\* rows (and schema) displayed and the next offset stay as they were, an error
\* is recorded in the view and the scanning or searching flag is cleared.
C17_Step ==
    /\ last'.op = "scanArrow" =>
         /\ explorer'.dataRows = explorer.dataRows
         /\ explorer'.nextOffset = explorer.nextOffset
         /\ explorer'.scanError # NoMessage
         /\ ~explorer'.isScanning
    /\ last'.op = "queryArrow" =>
         /\ search'.resultRows = search.resultRows
         /\ search'.resultSchema = search.resultSchema
         /\ search'.resultNextOffset = search.resultNextOffset
         /\ search'.resultError # NoMessage
         /\ ~search'.isSearching

C17_ArrowChunkRejected == [][C17_Step]_vars

\* C17 witness: rows were on display and an arrow chunk has been answered to
\* the next scan; the rows are still there
C17_Witness ==
    /\ last.op = "scanArrow"
    /\ explorer.dataRows = <<"r1", "r2">>
    /\ explorer.nextOffset = ScanLimit
    /\ explorer.scanError # NoMessage
    /\ ~explorer.isScanning

\* C15 as stated: unwrapEnvelope fails on every envelope whose apiVersion is
\* not "v1".
C15_UnknownVersionRejected ==
    unwrapped.applied /\ envelope.apiVersion # "v1" => unwrapped.result.threw

\* C16: unwrapEnvelope returns the payload of a success envelope
\* {apiVersion, ok = true, data = T}, and fails on an error envelope
\* {apiVersion, ok = false, error = {code, message}} with an error whose
\* message is that message.
C16_RoundTrip ==
    unwrapped.applied =>
        /\ envelope.ok /\ envelope.data # Undefined /\ envelope.error = NoError
             => unwrapped.result = Returned(envelope.data)
        /\ ~envelope.ok /\ envelope.data = Undefined
             /\ envelope.error.message # Undefined
             => /\ unwrapped.result.threw
                /\ unwrapped.result.message = envelope.error.message

\* C16 witness: the payload of a success envelope has come back
C16_Witness ==
    /\ unwrapped.applied
    /\ envelope = ResultEnvelope("v1", TRUE, "rows", NoError)
    /\ unwrapped.result = Returned("rows")

----------------------------------------------------------------------------
(* Deleting a profile: Sidebar.vue handleDeleteProfile, useProfiles          *)
(* deleteProfile and cleanupCredentials, credentialVault                     *)
(* cleanupUnusedCredentials                                                  *)

\* collectCredentialReferences: the trimmed, non-blank references of the
\* profiles whose auth is secret_ref
collectCredentialReferences(list) ==
    {Trim(list[i].auth.reference) :
        i \in {j \in 1..Len(list) : /\ list[j].auth.type = "secret_ref"
                                    /\ Trim(list[j].auth.reference) # ""}}

\* the reference a profile holds into the vault, "" when it holds none
ReferenceOf(profile) ==
    IF profile.auth.type = "secret_ref" THEN Trim(profile.auth.reference) ELSE ""

\* profiles.value.filter((profile) => profile.id !== profileId)
WithoutProfile(list, p) == SelectSeq(list, LAMBDA profile : profile.id # p)

\* nextProfiles[0]?.id ?? null
FirstProfileId(list) == IF Len(list) > 0 THEN list[1].id ELSE NoName

\* the ids of the profiles of a list
ProfileIdsOf(list) == {list[i].id : i \in 1..Len(list)}

\* cleanupUnusedCredentials as it would be if it did not look at the used set
UnusedCredentials_All(index, used) == index

\* cleanupUnusedCredentials, lines 181-184: the credentials of the index that
\* are not in the used set are the ones deleted
UnusedCredentials(index, used) == index \ used

\* `error instanceof Error ? error.message : fallback` of the catch clauses
ThrownMessage(r, fallback) == IF r.type = "Error" THEN r.message ELSE fallback

\* what a call to the store plugin or the stronghold can throw: an Error with
\* a message, an Error without one, or a string
StoreFailures ==
    {Rejection("Error", "boom"), Rejection("Error", ""), Rejection("string", "boom")}

\* history: a step of the deletion of profile p, the vault reference p held
\* and the message handed to onError, if any
ProfileStep(op, p, reference, reported) ==
    [op |-> op, p |-> p, reference |-> reference, reported |-> reported]

\* the profiles of the list loaded at start
ListedAtStart == {"p1", "p2"}

\* p was in the profile list and has been deleted from it
Deleted(p) == p \in ListedAtStart /\ ~InProfiles(p)

\* Sidebar.vue 212-214, then deleteProfile 209-211: a save is under way, and
\* deleteProfile returns at once; the connection has been reset all the same
HandleDeleteProfileBusy(p) ==
    /\ isSavingProfile
    /\ clearMessages
    /\ conn' = Store(p, ResetState(getState(p)))
    /\ calls' = Overtake(p)
    /\ last' = ProfileStep("deleteDropped", p, "", NoMessage)
    /\ UNCHANGED <<profileVars, outerVars, nextId>>

\* deleteProfile 213-217: there is no such profile
HandleDeleteProfileMissing(p) ==
    /\ ~isSavingProfile
    /\ ~InProfiles(p)
    /\ setError("profile not found")
    /\ conn' = Store(p, ResetState(getState(p)))
    /\ calls' = Overtake(p)
    /\ last' = ProfileStep("deleteMissing", p, "", "profile not found")
    /\ UNCHANGED <<profileVars, outerVars, nextId>>

\* deleteProfile 219-226, up to the await of saveProfileState: the profile
\* leaves the list, the active profile moves on if it was the one deleted,
\* and persistProfiles hands the new state to the store
HandleDeleteProfileStart(p) ==
    /\ ~isSavingProfile
    /\ InProfiles(p)
    /\ clearMessages
    /\ conn' = Store(p, ResetState(getState(p)))
    /\ calls' = Overtake(p)
    /\ isSavingProfile' = TRUE
    /\ profiles' = WithoutProfile(profiles, p)
    /\ activeProfileId' = IF activeProfileId = p
                            THEN FirstProfileId(WithoutProfile(profiles, p))
                            ELSE activeProfileId
    /\ deletion' = [stage |-> "saveProfileState", p |-> p,
                    reference |-> ReferenceOf(FindProfile(p)),
                    state |-> ProfileState(profiles', activeProfileId'),
                    used |-> {}, pending |-> {}, removed |-> 0]
    /\ last' = ProfileStep("deleteProfile", p, ReferenceOf(FindProfile(p)), NoMessage)
    /\ UNCHANGED <<envelopeVars, viewVars, auxVars, vault, persisted, nextId>>

\* handleDeleteProfile(profileId): clearMessages, resetConnection, deleteProfile
handleDeleteProfile(p) ==
    \/ HandleDeleteProfileBusy(p)
    \/ HandleDeleteProfileMissing(p)
    \/ HandleDeleteProfileStart(p)

\* deleteProfile returns through its finally (lines 232-234)
DeletionOver ==
    /\ isSavingProfile' = FALSE
    /\ deletion' = NoDeletion

\* saveProfileState has written the state; lines 227-228 and
\* cleanupCredentials up to the await of loadIndex in cleanupUnusedCredentials
SaveProfileStateOk ==
    /\ deletion.stage = "saveProfileState"
    /\ persisted' = deletion.state
    /\ setStatus("profile deleted")
    /\ deletion' = [deletion EXCEPT !.stage = "loadIndex",
                                    !.used = collectCredentialReferences(profiles)]
    /\ last' = ProfileStep("profileSaved", deletion.p, deletion.reference, NoMessage)
    /\ UNCHANGED <<profiles, activeProfileId, isSavingProfile, envelopeVars,
                   viewVars, auxVars, vault, conn, calls, nextId>>

\* saveProfileState throws, before or after store.set took effect; the catch
\* of deleteProfile (lines 229-231) reports it, and no cleanup is attempted
SaveProfileStateError(f, written) ==
    /\ deletion.stage = "saveProfileState"
    /\ persisted' = IF written THEN deletion.state ELSE persisted
    /\ setError(ThrownMessage(f, "delete failed"))
    /\ DeletionOver
    /\ last' = ProfileStep("deleteFailed", deletion.p, deletion.reference,
                           ThrownMessage(f, "delete failed"))
    /\ UNCHANGED <<profiles, activeProfileId, envelopeVars, viewVars, auxVars, vault,
                   conn, calls, nextId>>

\* loadIndex has answered (credentialVault.ts 181): the credentials not in
\* use are the ones to delete; with none of them, removed is empty, nothing
\* is said (line 96) and deleteProfile returns
LoadIndexOk ==
    /\ deletion.stage = "loadIndex"
    /\ IF UnusedCredentials(vault.index, deletion.used) = {}
         THEN /\ DeletionOver
              /\ last' = ProfileStep("deleteDone", deletion.p, deletion.reference,
                                     NoMessage)
         ELSE /\ deletion' = [deletion EXCEPT
                                !.stage = "deleteCredential",
                                !.pending = UnusedCredentials(vault.index, deletion.used)]
              /\ last' = ProfileStep("indexLoaded", deletion.p, deletion.reference,
                                     NoMessage)
              /\ UNCHANGED isSavingProfile
    /\ UNCHANGED <<profiles, activeProfileId, messageVars, envelopeVars, viewVars, auxVars,
                   vault, persisted, conn, calls, nextId>>

\* deleteCredential(reference) has gone through (credentialVault.ts 161-168):
\* the secret has left the stronghold and the index; after the last one,
\* cleanupCredentials reports how many were removed and deleteProfile returns
DeleteCredentialOk(r) ==
    /\ deletion.stage = "deleteCredential"
    /\ r \in deletion.pending
    /\ vault' = [items |-> vault.items \ {r}, index |-> vault.index \ {r}]
    /\ IF deletion.pending = {r}
         THEN /\ setStatus("credentials removed")
              /\ DeletionOver
              /\ last' = ProfileStep("deleteDone", deletion.p, deletion.reference,
                                     NoMessage)
         ELSE /\ deletion' = [deletion EXCEPT !.pending = @ \ {r},
                                              !.removed = @ + 1]
              /\ last' = ProfileStep("credentialDeleted", deletion.p,
                                     deletion.reference, NoMessage)
              /\ UNCHANGED <<isSavingProfile, messageVars>>
    /\ UNCHANGED <<profiles, activeProfileId, envelopeVars, viewVars, auxVars, persisted,
                   conn, calls, nextId>>

\* the deleteProfile under way as it would end if a failed cleanup put the
\* profile back
CleanupFailed_RollsBack(f, gone) ==
    /\ deletion.stage \in {"loadIndex", "deleteCredential"}
    /\ vault' = [vault EXCEPT !.items = @ \ gone]
    /\ profiles' = profiles \o <<StoredProfile(deletion.p, SecretRef(deletion.reference))>>
    /\ persisted' = ProfileState(profiles', activeProfileId)
    /\ setError(ThrownMessage(f, "cleanup failed"))
    /\ DeletionOver
    /\ last' = ProfileStep("cleanupFailed", deletion.p, deletion.reference,
                           ThrownMessage(f, "cleanup failed"))
    /\ UNCHANGED <<activeProfileId, envelopeVars, viewVars, auxVars, conn, calls, nextId>>

\* loadIndex or a deleteCredential throws; `gone` are the secrets that
\* deleteCredential had taken out of the stronghold before it threw, their
\* index entries still there. The catch of cleanupCredentials (lines 99-102)
\* reports it and deleteProfile returns through its finally
CleanupFailed(f, gone) ==
    /\ deletion.stage \in {"loadIndex", "deleteCredential"}
    /\ vault' = [vault EXCEPT !.items = @ \ gone]
    /\ setError(ThrownMessage(f, "cleanup failed"))
    /\ DeletionOver
    /\ last' = ProfileStep("cleanupFailed", deletion.p, deletion.reference,
                           ThrownMessage(f, "cleanup failed"))
    /\ UNCHANGED <<profiles, activeProfileId, envelopeVars, viewVars, auxVars, persisted,
                   conn, calls, nextId>>

\* the secrets a failing step may have taken out of the stronghold: none when
\* loadIndex fails, at most the one being deleted otherwise
TakenOut == {{}} \cup {{r} : r \in deletion.pending}

\* the list has been loaded with two profiles; p1 holds a reference into the
\* vault, p2 holds the same one, another one or none
ProfileInit ==
    /\ \E auth \in {SecretRef("cred_1"), SecretRef("cred_2"), AuthNone} :
          profiles = <<StoredProfile("p1", SecretRef("cred_1")),
                       StoredProfile("p2", auth)>>
    /\ activeProfileId = "p1"
    /\ isSavingProfile = FALSE
    /\ conn = [p \in ListedAtStart |-> createConnectionState]
    /\ calls = {}
    /\ nextId = [p \in ProfileIds |-> 1]
    /\ statusMessage = NoMessage
    /\ errorMessage = NoMessage
    /\ last = ProfileStep("noop", NoName, "", NoMessage)
    /\ EnvelopeIdle
    /\ ViewsMounted
    /\ StoreLoaded

\* the sidebar deletes profiles while p1 is being connected; refreshTables and
\* openTable are not invoked, so a connect answer never finds a refresh in
\* flight
ProfileNext ==
    \/ \E p \in ProfileIds : handleDeleteProfile(p)
    \/ SaveProfileStateOk
    \/ \E f \in StoreFailures, written \in BOOLEAN : SaveProfileStateError(f, written)
    \/ LoadIndexOk
    \/ \E r \in CredentialReferences : DeleteCredentialOk(r)
    \/ \E f \in StoreFailures, gone \in TakenOut : CleanupFailed(f, gone)
    \/ connectProfile("p1")
    \/ \E c \in calls, f \in Failures : ConnectResponseError(c, f)
    \/ \E c \in calls : ConnectResponseOkRefresh(c)
    \/ \E c \in calls, ok \in BOOLEAN, tbls \in TableLists,
          f \in Failures \cup {NoFailure} :
          (ok <=> f = NoFailure) /\ ChainedListTablesResponse(c, ok, tbls, f)

ProfileSpec == ProfileInit /\ [][ProfileNext]_vars

\* a deleteProfile has just returned after removing a profile from the list
DeletionReturned == last.op \in {"deleteDone", "deleteFailed", "cleanupFailed"}

\* the reference is (still) held by a profile of the list
Referenced(r) == r \in collectCredentialReferences(profiles)

\* the credential is in the vault: the secret and its index entry
InVault(r) == r \in vault.items /\ r \in vault.index

\* the credential has left the vault: neither the secret nor an index entry
OutOfVault(r) == r \notin vault.items /\ r \notin vault.index

C19_DeletionSurvivesCleanupFailure ==
    last.op = "cleanupFailed" =>
        /\ ~InProfiles(last.p)
        /\ last.p \notin ProfileIdsOf(persisted.profiles)
        /\ errorMessage = last.reported
        /\ statusMessage = NoMessage
        /\ ~isSavingProfile

\* C19 witness: a deleteCredential has thrown after taking the secret out of
\* the stronghold, and p1 is deleted all the same
C19_Witness ==
    /\ last.op = "cleanupFailed"
    /\ last.p = "p1"
    /\ "cred_1" \notin vault.items
    /\ "cred_1" \in vault.index
    /\ ~InProfiles("p1")
    /\ "p1" \notin ProfileIdsOf(persisted.profiles)
    /\ errorMessage = "boom"
    /\ ~isSavingProfile

\* C20 as stated: the registry map holds no entry for a profile that has
\* been deleted.
C20_DeletedStateDestroyed ==
    \A p \in ListedAtStart : Deleted(p) => p \notin DOMAIN conn

----------------------------------------------------------------------------
(* The lanes and the connection a response belongs to *)

\* a successful list response has just been stored
ListStored ==
    /\ last.ok
    /\ last.op = "refreshDone" \/ (last.op = "connectDone" /\ last.listed)

\* C23 as stated: a list response that has just been stored as a non-empty
\* table list answers a request made with the connection id the profile has
\* now.
C23_ListOfCurrentConnection ==
    ListStored /\ conn[last.p].tables # {} =>
        conn[last.p].connectionId = last.id

\* C24 as stated: in every ConnectionState a non-null activeTableId implies a
\* non-null connectionId.
C24_TableImpliesConnection ==
    \A p \in DOMAIN conn : conn[p].activeTableId # NoId => HasHandle(conn[p])

\* the driver commands
DriverStages == {"connectV1", "listTablesV1", "openTableV1", "getSchemaV1"}

\* the driver calls in flight: profile, invocation and command
DriverCalls(cs) == {<<c.p, c.uid, c.stage>> : c \in {k \in cs : k.stage \in DriverStages}}

\* the step is the failure of a driver call
FailureStep ==
    \/ last'.op \in {"connectFailed", "openFailed"}
    \/ last'.op \in {"refreshDone", "connectDone"} /\ ~last'.ok

\* the step is a request the lane accepted
AcceptedStep == last'.op \in {"connectProfile", "refreshTables", "openTable"}

\* the command an accepted request issues
FirstStage(op) ==
    CASE op = "connectProfile" -> "connectV1"
      [] op = "refreshTables" -> "listTablesV1"
      [] op = "openTable" -> "openTableV1"

\* the call of invocation uid of p awaiting command stage has been answered
\* in this step
Answered(p, uid, stage) ==
    /\ <<p, uid, stage>> \in DriverCalls(calls)
    /\ <<p, uid, stage>> \notin DriverCalls(calls')

\* C30: an accepted connectProfile, refreshTables or openTable issues exactly
\* one driver call, of its first command and under a fresh invocation; any
\* other new driver call is the list_tables_v1 that follows the successful
\* connect_v1 of the same invocation or the get_schema_v1 that follows its
\* successful open_table_v1, one at most per step; a step in which a driver
\* call fails ends that call and issues none.
C30_Step ==
    LET new == DriverCalls(calls') \ DriverCalls(calls) IN
    /\ Cardinality(new) <= 1
    /\ AcceptedStep =>
         new = {<<last'.p, nextId[last'.p], FirstStage(last'.op)>>}
    /\ ~AcceptedStep =>
         \A n \in new :
            \/ /\ n[3] = "listTablesV1"
               /\ last'.op = "connectResponse"
               /\ Answered(n[1], n[2], "connectV1")
            \/ /\ n[3] = "getSchemaV1"
               /\ last'.op = "openResponse"
               /\ Answered(n[1], n[2], "openTableV1")
    /\ FailureStep =>
         /\ new = {}
         /\ DriverCalls(calls') # DriverCalls(calls)
         /\ DriverCalls(calls') \subseteq DriverCalls(calls)

C30_NoRetry == [][C30_Step]_vars

\* C30 witness: the connect of p1 has failed and nothing of p1 is in flight
C30_Witness ==
    /\ last.op = "connectFailed"
    /\ last.p = "p1"
    /\ \A c \in calls : c.p # "p1"
    /\ ~conn["p1"].isConnecting

----------------------------------------------------------------------------
(* lib/formatters.ts: formatCellValue. A text is the sequence of its pieces. *)

\* the number of array elements shown (line 34)
PreviewLength == 6

\* the marker appended to a preview that leaves elements out (line 35)
Ellipsis == " ..."

\* String(value) of the numbers drawn
StringOf(n) == CASE n = 1 -> "1" [] n = 2 -> "2" [] OTHER -> "NaN"

\* value.slice(0, n)
Slice(items, n) == SubSeq(items, 1, IF Len(items) < n THEN Len(items) ELSE n)

\* texts.join(sep)
RECURSIVE Join(_, _)
Join(texts, sep) ==
    IF Len(texts) = 0 THEN <<>>
    ELSE IF Len(texts) = 1 THEN texts[1]
    ELSE texts[1] \o <<sep>> \o Join(Tail(texts), sep)

\* the suffix as it would be if arrays of PreviewLength elements got the marker
Suffix_FromPreviewLength(items) ==
    IF Len(items) >= PreviewLength THEN <<Ellipsis>> ELSE <<>>

\* line 35: the marker for an array longer than the preview
Suffix(items) == IF Len(items) > PreviewLength THEN <<Ellipsis>> ELSE <<>>

\* formatCellValue (lines 12-47), for null, strings, numbers and arrays
RECURSIVE formatCellValue(_)
formatCellValue(value) ==
    CASE value.type = "null" -> <<>>
      [] value.type = "string" -> IF value.text = "" THEN <<>> ELSE <<value.text>>
      [] value.type = "number" -> <<StringOf(value.number)>>
      [] value.type = "array" ->
           LET shown == Slice(value.items, PreviewLength)
               texts == [i \in 1..Len(shown) |-> formatCellValue(shown[i])]
           IN <<"[">> \o Join(texts, ", ") \o Suffix(value.items) \o <<"]">>

\* the elements an array is made of: a number, a string, null, and an array
Elements ==
    {NumberCell(1), StringCell("a"), NullCell,
     ArrayCell(<<NumberCell(1), NumberCell(2)>>)}

\* the arrays handed to formatCellValue
Cells ==
    {ArrayCell(items) : items \in UNION {[1..n -> Elements] : n \in 0..MaxItems}}

FormatInit ==
    /\ RegistryInit
    /\ EnvelopeIdle
    /\ ViewsMounted
    /\ vault = Vault(CredentialReferences)
    /\ persisted = ProfileState(profiles, activeProfileId)
    /\ deletion = NoDeletion
    /\ SidebarIdle
    /\ EventsIdle
    /\ cell \in Cells
    /\ formatted = NotFormatted

\* a table cell is rendered
FormatCell ==
    /\ ~formatted.applied
    /\ formatted' = [applied |-> TRUE, text |-> formatCellValue(cell)]
    /\ UNCHANGED <<profileVars, messageVars, envelopeVars, viewVars, storeVars,
                   conn, calls, nextId, last, cell, saves, eventVars>>

FormatNext == FormatCell

FormatSpec == FormatInit /\ [][FormatNext]_vars

\* the text of the first n elements of an array, each rendered by
\* formatCellValue, with ", " between two of them
RECURSIVE Rendered(_, _)
Rendered(items, n) ==
    IF n = 0 THEN <<>>
    ELSE Rendered(items, n - 1)
         \o (IF n > 1 THEN <<", ">> ELSE <<>>)
         \o formatCellValue(items[n])

\* the smaller of two numbers
Min(a, b) == IF a < b THEN a ELSE b

\* C22: formatCellValue of an array is "[", the first six elements at most,
\* each rendered by formatCellValue and joined by ", ", then the ellipsis
\* marker if and only if the array has more than six elements, then "]".
C22_ArrayPreview ==
    formatted.applied /\ cell.type = "array" =>
        LET n == Len(cell.items) IN
        /\ formatted.text =
             <<"[">> \o Rendered(cell.items, Min(n, 6))
                     \o (IF n > 6 THEN <<Ellipsis>> ELSE <<>>) \o <<"]">>
        /\ formatted.text[Len(formatted.text) - 1] = Ellipsis <=> n > 6

\* C22 witness: an array of seven elements has been rendered with six of them
\* and the marker
C22_Witness ==
    /\ formatted.applied
    /\ cell = ArrayCell([i \in 1..7 |-> NumberCell(1)])
    /\ formatted.text = <<"[", "1", ", ", "1", ", ", "1", ", ", "1", ", ", "1",
                          ", ", "1", Ellipsis, "]">>

----------------------------------------------------------------------------
(* The sidebar: Sidebar.vue handleContextMenuSelect and selectAndOpenTable,  *)
(* bound in App.vue to selectProfile, connectProfile, refreshTables and      *)
(* openTable                                                                 *)

\* the profiles the sidebar shows
SidebarProfileIds == {"p1", "p2"}

\* a saveProfileState call in flight: the state handed over, and the
\* openTable that selectAndOpenTable goes on with once it resolves
Save(id, state, p, name) == [id |-> id, state |-> state, p |-> p, name |-> name]

\* the number given to the next save
FreeSave == CHOOSE id \in 1..MaxSaves : \A s \in saves : s.id # id

\* selectProfile (useProfiles 248-251) up to its await: the profile becomes
\* the active one and persistProfiles hands the state to the store; `name` is
\* the table selectAndOpenTable opens afterwards, NoName for a plain select
SelectProfileStart(p, name) ==
    /\ Cardinality(saves) < MaxSaves
    /\ activeProfileId' = p
    /\ saves' = saves \cup {Save(FreeSave, ProfileState(profiles, p), p, name)}
    /\ last' = Step("selectProfile", p, 0, name, NoId, TRUE, FALSE, FALSE)
    /\ UNCHANGED <<profiles, isSavingProfile, messageVars, envelopeVars, viewVars,
                   storeVars, formatVars, eventVars, conn, calls, nextId>>

\* the card is clicked: @select="onSelectProfile(profile.id)"
selectProfile(p) == SelectProfileStart(p, NoName)

\* the save of a plain select has resolved
SelectSaved(s) ==
    /\ s \in saves /\ s.name = NoName
    /\ saves' = saves \ {s}
    /\ persisted' = s.state
    /\ last' = Step("profileSelected", s.p, 0, NoName, NoId, TRUE, FALSE, FALSE)
    /\ UNCHANGED <<profileVars, messageVars, envelopeVars, viewVars, vault,
                   deletion, formatVars, eventVars, conn, calls, nextId>>

\* the save has thrown: selectProfile rejects, and selectAndOpenTable with it
SelectSaveFailed(s) ==
    /\ s \in saves
    /\ saves' = saves \ {s}
    /\ last' = Step("selectFailed", s.p, 0, s.name, NoId, FALSE, FALSE, FALSE)
    /\ UNCHANGED <<profileVars, messageVars, envelopeVars, viewVars, storeVars,
                   formatVars, eventVars, conn, calls, nextId>>

\* selectAndOpenTable line 224, the request dropped by openTable 145-152
SelectSavedOpenNoop(s) ==
    /\ s \in saves /\ s.name # NoName
    /\ ~HasHandle(getState(s.p)) \/ OpenBusy(getState(s.p))
    /\ saves' = saves \ {s}
    /\ persisted' = s.state
    /\ conn' = Store(s.p, getState(s.p))
    /\ last' = Step("openDropped", s.p, 0, NoName, NoId, FALSE, FALSE, FALSE)
    /\ UNCHANGED <<profileVars, messageVars, envelopeVars, viewVars, vault,
                   deletion, formatVars, eventVars, calls, nextId>>

\* selectAndOpenTable line 224, with openTable 154-159
SelectSavedOpenStart(s) ==
    /\ s \in saves /\ s.name # NoName
    /\ HasHandle(getState(s.p))
    /\ ~OpenBusy(getState(s.p))
    /\ Accepted < MaxCalls
    /\ saves' = saves \ {s}
    /\ persisted' = s.state
    /\ conn' = Store(s.p, [getState(s.p) EXCEPT !.isOpening = TRUE,
                                                !.activeTableName = s.name,
                                                !.activeTableId = NoId,
                                                !.schema = NoId])
    /\ calls' = calls \cup
         {Call(nextId[s.p], s.p, "open", "openTableV1", getState(s.p).connectionId,
               s.name, NoId, FALSE)}
    /\ nextId' = [nextId EXCEPT ![s.p] = @ + 1]
    /\ last' = Step("openTable", s.p, nextId[s.p], s.name, NoId, TRUE, FALSE, FALSE)
    /\ UNCHANGED <<profileVars, messageVars, envelopeVars, viewVars, vault,
                   deletion, formatVars, eventVars>>

\* selectAndOpenTable(profileId, tableName), lines 222-225
selectAndOpenTable(p, name) == SelectProfileStart(p, name)

\* handleContextMenuSelect, lines 318-335: "connect" and "refresh" go to the
\* lane of the profile the menu was opened on
handleContextMenuSelect(key, p) ==
    \/ key = "connect" /\ connectProfile(p)
    \/ key = "refresh" /\ refreshTables(p)

SidebarNext ==
    \/ \E p \in SidebarProfileIds : selectProfile(p)
    \/ \E p \in SidebarProfileIds, name \in TableNames : selectAndOpenTable(p, name)
    \/ \E p \in SidebarProfileIds : handleContextMenuSelect("connect", p)
    \/ \E p \in SidebarProfileIds : handleContextMenuSelect("refresh", p)
    \/ \E s \in saves : SelectSaved(s)
    \/ \E s \in saves : SelectSaveFailed(s)
    \/ \E s \in saves : SelectSavedOpenNoop(s)
    \/ \E s \in saves : SelectSavedOpenStart(s)
    \/ \E c \in calls : Respond(c)

SidebarSpec == Init /\ [][SidebarNext]_vars

\* C21 as stated: when a lane accepts a connect, refresh or open request of
\* the sidebar, the profile of the request is the active profile.
C21_SelectedFirst ==
    last.op \in {"connectProfile", "refreshTables", "openTable"} =>
        activeProfileId = last.p

\* a delete request is turned away in this step because a save is under way
C27_Rejected == last'.op = "deleteDropped"

\* C27 as stated: a delete request for p that is rejected because a profile
\* save is in flight leaves p in the profile list and p's ConnectionState as
\* it was.
C27_RejectedDeleteChangesNothing ==
    [][C27_Rejected =>
         /\ profiles' = profiles
         /\ InProfiles(last'.p) => conn'[last'.p] = conn[last'.p]]_vars

----------------------------------------------------------------------------
(* The connection dialogs and the profiles:create / profiles:update events:  *)
(* NewConnectionDialog.vue and EditConnectionDialog.vue saveProfile, the     *)
(* listeners of Sidebar.vue 95-135, useProfiles addProfile and updateProfile *)

\* what the steps of this section leave alone
eventFrame == <<envelopeVars, viewVars, formatVars, saves, deletion, conn, calls, nextId>>

\* crypto.randomUUID() of createProfile: the id of the profile the n-th event
\* creates
NewProfileId(n) == CASE n = 1 -> "p3" [] n = 2 -> "p4" [] OTHER -> "p5"

\* `cred_${crypto.randomUUID()}` of saveCredential: the reference of the
\* credential the dialog sending the n-th event saves
NewCredential(n) == CASE n = 1 -> "cred_3" [] n = 2 -> "cred_4" [] OTHER -> "cred_5"

\* an event on its way to the main window, with the auth of its payload
Event(n, kind, id, auth) == [n |-> n, kind |-> kind, id |-> id, auth |-> auth]

\* how a dialog fills in auth: none, a credential it saves to the stronghold,
\* or (edit dialog) the reference the profile had when the dialog loaded it
DialogAuth(choice, n, id) ==
    CASE choice = "none" -> AuthNone
      [] choice = "stronghold" -> SecretRef(NewCredential(n))
      [] choice = "keep" -> FindProfile(id).auth

\* saveProfile of a dialog, running in the dialog window: saveCredential if
\* a credential is to be stored, then emitTo the main window
DialogSaveProfile(kind, id, choice) ==
    /\ events.sent < MaxEvents
    /\ kind = "create" => id = NewProfileId(events.sent + 1) /\ choice # "keep"
    /\ kind = "update" => InProfiles(id)
    /\ choice = "keep" => FindProfile(id).auth.type = "secret_ref"
    /\ vault' = IF choice = "stronghold"
                  THEN [items |-> vault.items \cup {NewCredential(events.sent + 1)},
                        index |-> vault.index \cup {NewCredential(events.sent + 1)}]
                  ELSE vault
    /\ events' = [sent |-> events.sent + 1,
                  inflight |-> events.inflight \cup
                     {Event(events.sent + 1, kind, id,
                            DialogAuth(choice, events.sent + 1, id))}]
    /\ last' = ProfileStep("dialogSaved", id,
                           ReferenceOf([auth |-> DialogAuth(choice, events.sent + 1, id)]),
                           NoMessage)
    /\ UNCHANGED <<profileVars, messageVars, persisted, saving, eventFrame>>

\* the event has been delivered
Delivered(e) == events' = [events EXCEPT !.inflight = @ \ {e}]

\* the list with the profile of that id replaced
WithProfile(list, updated) ==
    [i \in 1..Len(list) |-> IF list[i].id = updated.id THEN updated ELSE list[i]]

\* profiles:create listener (Sidebar.vue 97-110), addProfile 106-108: a save
\* is under way and addProfile returns at once
CreateReceivedBusy(e) ==
    /\ e \in events.inflight /\ e.kind = "create"
    /\ isSavingProfile
    /\ Delivered(e)
    /\ clearMessages
    /\ last' = ProfileStep("createDropped", e.id, ReferenceOf(e), NoMessage)
    /\ UNCHANGED <<profileVars, vault, persisted, saving, eventFrame>>

\* addProfile 117-137, up to the await of saveProfileState: the profile is
\* appended and made the active one
CreateReceivedStart(e) ==
    /\ e \in events.inflight /\ e.kind = "create"
    /\ ~isSavingProfile
    /\ Delivered(e)
    /\ clearMessages
    /\ isSavingProfile' = TRUE
    /\ profiles' = Append(profiles, StoredProfile(e.id, e.auth))
    /\ activeProfileId' = e.id
    /\ saving' = [stage |-> "saveProfileState", kind |-> "add", p |-> e.id,
                  state |-> ProfileState(profiles', e.id), used |-> {},
                  pending |-> {}]
    /\ last' = ProfileStep("addProfile", e.id, ReferenceOf(e), NoMessage)
    /\ UNCHANGED <<vault, persisted, eventFrame>>

\* profiles:update listener (Sidebar.vue 111-128), updateProfile 159-161
UpdateReceivedBusy(e) ==
    /\ e \in events.inflight /\ e.kind = "update"
    /\ isSavingProfile
    /\ Delivered(e)
    /\ clearMessages
    /\ last' = ProfileStep("updateDropped", e.id, ReferenceOf(e), NoMessage)
    /\ UNCHANGED <<profileVars, vault, persisted, saving, eventFrame>>

\* updateProfile 170-174: the profile has been deleted meanwhile
UpdateReceivedMissing(e) ==
    /\ e \in events.inflight /\ e.kind = "update"
    /\ ~isSavingProfile
    /\ ~InProfiles(e.id)
    /\ Delivered(e)
    /\ setError("profile not found")
    /\ last' = ProfileStep("updateMissing", e.id, ReferenceOf(e), "profile not found")
    /\ UNCHANGED <<profileVars, vault, persisted, saving, eventFrame>>

\* updateProfile 176-197, up to the await of saveProfileState
UpdateReceivedStart(e) ==
    /\ e \in events.inflight /\ e.kind = "update"
    /\ ~isSavingProfile
    /\ InProfiles(e.id)
    /\ Delivered(e)
    /\ clearMessages
    /\ isSavingProfile' = TRUE
    /\ profiles' = WithProfile(profiles, StoredProfile(e.id, e.auth))
    /\ saving' = [stage |-> "saveProfileState", kind |-> "update", p |-> e.id,
                  state |-> ProfileState(profiles', activeProfileId), used |-> {},
                  pending |-> {}]
    /\ last' = ProfileStep("updateProfile", e.id, ReferenceOf(e), NoMessage)
    /\ UNCHANGED <<activeProfileId, vault, persisted, eventFrame>>

\* addProfile or updateProfile returns through its finally
SavingOver ==
    /\ isSavingProfile' = FALSE
    /\ saving' = NoSaving

\* the reference of the profile being saved
SavingReference == ReferenceOf(FindProfile(saving.p))

\* saveProfileState has written the state: addProfile 138-144 ends;
\* updateProfile 198-199 goes on to cleanupCredentials, up to loadIndex
SavingSaveOk ==
    /\ saving.stage = "saveProfileState"
    /\ persisted' = saving.state
    /\ IF saving.kind = "add"
         THEN /\ setStatus("profile saved")
              /\ SavingOver
              /\ last' = ProfileStep("profileAdded", saving.p, SavingReference,
                                     NoMessage)
         ELSE /\ setStatus("profile updated")
              /\ saving' = [saving EXCEPT
                              !.stage = "loadIndex",
                              !.used = collectCredentialReferences(profiles)]
              /\ last' = ProfileStep("updateSaved", saving.p, SavingReference,
                                     NoMessage)
              /\ UNCHANGED isSavingProfile
    /\ UNCHANGED <<profiles, activeProfileId, vault, events, eventFrame>>

\* saveProfileState throws: the catch of addProfile (145-147) or of
\* updateProfile (200-202) reports it
SavingSaveError(f, written) ==
    /\ saving.stage = "saveProfileState"
    /\ persisted' = IF written THEN saving.state ELSE persisted
    /\ setError(ThrownMessage(f, "save failed"))
    /\ SavingOver
    /\ last' = ProfileStep(IF saving.kind = "add" THEN "addFailed" ELSE "updateFailed",
                           saving.p, SavingReference, ThrownMessage(f, "save failed"))
    /\ UNCHANGED <<profiles, activeProfileId, vault, events, eventFrame>>

\* cleanupUnusedCredentials of updateProfile: loadIndex has answered
UpdateLoadIndexOk ==
    /\ saving.stage = "loadIndex"
    /\ IF UnusedCredentials(vault.index, saving.used) = {}
         THEN /\ SavingOver
              /\ last' = ProfileStep("profileUpdated", saving.p, SavingReference,
                                     NoMessage)
         ELSE /\ saving' = [saving EXCEPT
                              !.stage = "deleteCredential",
                              !.pending = UnusedCredentials(vault.index, saving.used)]
              /\ last' = ProfileStep("indexLoaded", saving.p, SavingReference,
                                     NoMessage)
              /\ UNCHANGED isSavingProfile
    /\ UNCHANGED <<profiles, activeProfileId, messageVars, vault, persisted, events,
                   eventFrame>>

\* cleanupUnusedCredentials of updateProfile: a deleteCredential has gone
\* through
UpdateDeleteCredentialOk(r) ==
    /\ saving.stage = "deleteCredential"
    /\ r \in saving.pending
    /\ vault' = [items |-> vault.items \ {r}, index |-> vault.index \ {r}]
    /\ IF saving.pending = {r}
         THEN /\ setStatus("credentials removed")
              /\ SavingOver
              /\ last' = ProfileStep("profileUpdated", saving.p, SavingReference,
                                     NoMessage)
         ELSE /\ saving' = [saving EXCEPT !.pending = @ \ {r}]
              /\ last' = ProfileStep("credentialDeleted", saving.p, SavingReference,
                                     NoMessage)
              /\ UNCHANGED <<isSavingProfile, messageVars>>
    /\ UNCHANGED <<profiles, activeProfileId, persisted, events, eventFrame>>

\* cleanupCredentials of updateProfile catches a failure of the vault
UpdateCleanupFailed(f, gone) ==
    /\ saving.stage \in {"loadIndex", "deleteCredential"}
    /\ vault' = [vault EXCEPT !.items = @ \ gone]
    /\ setError(ThrownMessage(f, "cleanup failed"))
    /\ SavingOver
    /\ last' = ProfileStep("updateCleanupFailed", saving.p, SavingReference,
                           ThrownMessage(f, "cleanup failed"))
    /\ UNCHANGED <<profiles, activeProfileId, persisted, events, eventFrame>>

\* the secrets a failing step of the update cleanup may have taken out
UpdateTakenOut == {{}} \cup {{r} : r \in saving.pending}

\* the profiles an edit dialog can be open for
EditableProfileIds == {"p1", "p2"}

EventNext ==
    \/ \E choice \in {"none", "stronghold"} :
          DialogSaveProfile("create", NewProfileId(events.sent + 1), choice)
    \/ \E id \in EditableProfileIds, choice \in {"none", "stronghold", "keep"} :
          DialogSaveProfile("update", id, choice)
    \/ \E e \in events.inflight : CreateReceivedBusy(e)
    \/ \E e \in events.inflight : CreateReceivedStart(e)
    \/ \E e \in events.inflight : UpdateReceivedBusy(e)
    \/ \E e \in events.inflight : UpdateReceivedMissing(e)
    \/ \E e \in events.inflight : UpdateReceivedStart(e)
    \/ SavingSaveOk
    \/ \E f \in StoreFailures, written \in BOOLEAN : SavingSaveError(f, written)
    \/ UpdateLoadIndexOk
    \/ \E r \in vault.index : UpdateDeleteCredentialOk(r)
    \/ \E f \in StoreFailures, gone \in UpdateTakenOut : UpdateCleanupFailed(f, gone)
    \/ \E p \in EditableProfileIds : handleDeleteProfile(p)
    \/ SaveProfileStateOk
    \/ \E f \in StoreFailures, written \in BOOLEAN : SaveProfileStateError(f, written)
    \/ LoadIndexOk
    \/ \E r \in vault.index : DeleteCredentialOk(r)
    \/ \E f \in StoreFailures, gone \in TakenOut : CleanupFailed(f, gone)

EventSpec == ProfileInit /\ [][EventNext]_vars

\* the handling of an event has ended
EventHandled ==
    last.op \in {"createDropped", "updateDropped", "updateMissing", "profileAdded",
                 "profileUpdated", "addFailed", "updateFailed", "updateCleanupFailed"}

\* the handling ended with a call of the error callback
ErrorReported ==
    last.op \in {"updateMissing", "addFailed", "updateFailed", "updateCleanupFailed"}

\* the profile of the event is in the list and in the store file, with the
\* auth of the event
ProfilePersisted ==
    /\ InProfiles(last.p)
    /\ ReferenceOf(FindProfile(last.p)) = last.reference
    /\ \E i \in 1..Len(persisted.profiles) : persisted.profiles[i] = FindProfile(last.p)

\* C28 as stated: when the handling of a profiles:create or profiles:update
\* event has ended, the profile is added or updated and persisted, or the
\* error callback has been called.
C28_EventNeverDropped ==
    EventHandled => ProfilePersisted \/ ErrorReported

\* C29 as stated: every secret_ref reference held by a stored profile names a
\* credential present in the vault.
C29_ReferencesInVault ==
    \A r \in collectCredentialReferences(profiles) : InVault(r)

----------------------------------------------------------------------------
(* ExplorerView.vue: the watcher of activeTableId (lines 202-216) with the   *)
(* openTable of the active profile that makes it fire                        *)

\* lines 203-207: the page is reset and the rows on display are dropped
WatchReset ==
    [explorer EXCEPT !.offset = 0, !.dataRows = <<>>, !.nextOffset = NoOffset,
                     !.scanError = NoMessage]

\* openTable(activeProfileId, name) from a tab of the view (lines 218-227),
\* with openTable 154-159; activeTableId becomes null and the watcher fires:
\* it resets the view, and asks for no scan
ExplorerOpenTable(name) ==
    /\ activeProfileId \in DOMAIN conn
    /\ HasHandle(conn[activeProfileId])
    /\ ~OpenBusy(conn[activeProfileId])
    /\ name # conn[activeProfileId].activeTableName
    /\ Accepted < MaxCalls
    /\ conn' = [conn EXCEPT ![activeProfileId].isOpening = TRUE,
                            ![activeProfileId].activeTableName = name,
                            ![activeProfileId].activeTableId = NoId,
                            ![activeProfileId].schema = NoId]
    /\ calls' = calls \cup
         {Call(nextId[activeProfileId], activeProfileId, "open", "openTableV1",
               conn[activeProfileId].connectionId, name, NoId, FALSE)}
    /\ nextId' = [nextId EXCEPT ![activeProfileId] = @ + 1]
    /\ explorer' = IF ActiveTableId # NoId THEN WatchReset ELSE explorer
    /\ IF ActiveTableId # NoId THEN clearMessages ELSE UNCHANGED messageVars
    /\ last' = [last EXCEPT !.op = "openTable"]
    /\ UNCHANGED <<profileVars, envelopeVars, storeVars, auxVars, search, queries>>

\* useConnection line 160 for the active profile: the table id is installed
\* and get_schema_v1 issued; the watcher fires, resets the view and calls
\* runScan, which returns at once while a scan is in flight (line 239)
ExplorerOpenResponseOk(c) ==
    /\ c \in calls /\ c.lane = "open" /\ c.stage = "openTableV1"
    /\ c.p = activeProfileId
    /\ explorer.isScanning \/ Scans < MaxScans
    /\ conn' = [conn EXCEPT ![c.p].activeTableId = TableIdOf(c)]
    /\ calls' = (calls \ {c}) \cup
         {[c EXCEPT !.stage = "getSchemaV1", !.tableId = TableIdOf(c)]}
    /\ clearMessages
    /\ IF explorer.isScanning
         THEN /\ explorer' = WatchReset
              /\ UNCHANGED queries
         ELSE /\ explorer' = [WatchReset EXCEPT !.isScanning = TRUE]
              /\ queries' = queries \cup
                   {[view |-> "explorer", tableId |-> TableIdOf(c), offset |-> 0]}
    /\ last' = [last EXCEPT !.op = "tableChanged"]
    /\ UNCHANGED <<profileVars, envelopeVars, storeVars, auxVars, search, nextId>>

ExplorerNext ==
    \/ runScan
    \/ \E q \in queries, r \in ChunkResponses : ScanResponseOk(q, r)
    \/ \E q \in queries, f \in Failures : ScanResponseError(q, f)
    \/ \E name \in TableNames : ExplorerOpenTable(name)
    \/ \E c \in calls : ExplorerOpenResponseOk(c)
    \/ \E c \in calls, f \in Failures : OpenTableResponseError(c, f)
    \/ \E c \in calls : GetSchemaResponseOk(c)
    \/ \E c \in calls, f \in Failures : GetSchemaResponseError(c, f)

ExplorerSpec == ScanInit /\ [][ExplorerNext]_vars

\* the active table id after the step
ActiveTableIdAfter ==
    IF activeProfileId' \in DOMAIN conn' THEN conn'[activeProfileId'].activeTableId
    ELSE NoId

\* C25 as stated: rows that a scan response puts on display come from a scan
\* of the table that is active then, and when the active table id changes to
\* a non-null value a scan of that table is under way after the step.
C25_Step ==
    /\ last'.op = "scanJson" /\ explorer'.dataRows # <<>> =>
         \A q \in queries \ queries' : q.tableId = ActiveTableIdAfter
    /\ last'.op = "tableChanged" /\ ActiveTableIdAfter # NoId =>
         \E q \in queries' : q.view = "explorer" /\ q.tableId = ActiveTableIdAfter

C25_RowsOfActiveTable == [][C25_Step]_vars

----------------------------------------------------------------------------
(* SearchView.vue: openSelectedTable (lines 142-156) over openTable          *)

\* line 155: the status set when openTable has returned
OpenedMessage(name) == "opened " \o name

\* lines 145-148: no profile or no table selected
OpenSelectedNoName ==
    /\ setError("select a table first")
    /\ last' = Step("searchNoName", activeProfileId, 0, NoName, NoId, FALSE, FALSE,
                    FALSE)
    /\ UNCHANGED <<profileVars, outerVars, conn, calls, nextId>>

\* lines 149-152: the scoped profile has no connection
OpenSelectedNotConnected(name) ==
    /\ ~HasHandle(conn[activeProfileId])
    /\ setError("not connected")
    /\ last' = Step("searchNotConnected", activeProfileId, 0, name, NoId, FALSE,
                    FALSE, FALSE)
    /\ UNCHANGED <<profileVars, outerVars, conn, calls, nextId>>

\* lines 153-155 when openTable returns at its line 150-152 (an open is in
\* flight): the messages are cleared and the status is set at once
OpenSelectedDropped(name) ==
    /\ HasHandle(conn[activeProfileId])
    /\ OpenBusy(conn[activeProfileId])
    /\ setStatus(OpenedMessage(name))
    /\ last' = Step("searchOpenDropped", activeProfileId, 0, name, NoId, FALSE,
                    FALSE, FALSE)
    /\ UNCHANGED <<profileVars, outerVars, conn, calls, nextId>>

\* lines 153-154 with openTable 154-159: the messages are cleared and
\* open_table_v1 issued
OpenSelectedStart(name) ==
    /\ HasHandle(conn[activeProfileId])
    /\ ~OpenBusy(conn[activeProfileId])
    /\ Accepted < MaxCalls
    /\ clearMessages
    /\ conn' = [conn EXCEPT ![activeProfileId].isOpening = TRUE,
                            ![activeProfileId].activeTableName = name,
                            ![activeProfileId].activeTableId = NoId,
                            ![activeProfileId].schema = NoId]
    /\ calls' = calls \cup
         {Call(nextId[activeProfileId], activeProfileId, "open", "openTableV1",
               conn[activeProfileId].connectionId, name, NoId, FALSE)}
    /\ nextId' = [nextId EXCEPT ![activeProfileId] = @ + 1]
    /\ last' = Step("openTable", activeProfileId, nextId[activeProfileId], name,
                    NoId, TRUE, FALSE, FALSE)
    /\ UNCHANGED <<profileVars, outerVars>>

openSelectedTable ==
    \/ OpenSelectedNoName
    \/ \E name \in TableNames :
         \/ OpenSelectedNotConnected(name)
         \/ OpenSelectedDropped(name)
         \/ OpenSelectedStart(name)

\* line 155 after openTable has returned: the status is set, whatever
\* openTable did
OpenSelectedEnd(c, opened) == setStatus(OpenedMessage(c.name))

\* openTable 162-167 then line 155: open_table_v1 failed, onError has the
\* message, openTable returns and the status is set
OpenSelectedOpenError(c, f) ==
    /\ c \in calls /\ c.lane = "open" /\ c.stage = "openTableV1"
    /\ conn' = [conn EXCEPT ![c.p].isOpening = FALSE]
    /\ OpenSelectedEnd(c, FALSE)
    /\ calls' = calls \ {c}
    /\ last' = Step("searchOpenFailed", c.p, c.uid, c.name, NoId, FALSE, FALSE,
                    FALSE)
    /\ UNCHANGED <<profileVars, outerVars, nextId>>

\* openTable 161, 165-167 then line 155: the schema is stored and the status
\* set
OpenSelectedSchemaOk(c) ==
    /\ c \in calls /\ c.lane = "open" /\ c.stage = "getSchemaV1"
    /\ conn' = [conn EXCEPT ![c.p].schema = SchemaOf(c.tableId),
                            ![c.p].isOpening = FALSE]
    /\ OpenSelectedEnd(c, TRUE)
    /\ calls' = calls \ {c}
    /\ last' = Step("searchOpenDone", c.p, c.uid, c.name, c.tableId, TRUE, FALSE,
                    FALSE)
    /\ UNCHANGED <<profileVars, outerVars, nextId>>

\* openTable 161-167 then line 155: get_schema_v1 failed
OpenSelectedSchemaError(c, f) ==
    /\ c \in calls /\ c.lane = "open" /\ c.stage = "getSchemaV1"
    /\ conn' = [conn EXCEPT ![c.p].isOpening = FALSE]
    /\ OpenSelectedEnd(c, FALSE)
    /\ calls' = calls \ {c}
    /\ last' = Step("searchSchemaFailed", c.p, c.uid, c.name, c.tableId, FALSE,
                    FALSE, FALSE)
    /\ UNCHANGED <<profileVars, outerVars, nextId>>

\* p1 connected with its tables listed and none open, p2 not connected
SearchOpenInit ==
    /\ profiles = <<StoredProfile("p1", AuthNone), StoredProfile("p2", AuthNone)>>
    /\ activeProfileId \in {"p1", "p2"}
    /\ isSavingProfile = FALSE
    /\ conn = [p \in {"p1", "p2"} |->
                 IF p = "p1"
                   THEN [createConnectionState EXCEPT
                           !.connectionId = 1, !.tables = {"items"}]
                   ELSE createConnectionState]
    /\ calls = {}
    /\ nextId = [p \in ProfileIds |-> IF p = "p1" THEN 2 ELSE 1]
    /\ statusMessage = "connected"
    /\ errorMessage = NoMessage
    /\ last = Step("noop", NoName, 0, NoName, NoId, FALSE, FALSE, FALSE)
    /\ EnvelopeIdle
    /\ ViewsMounted
    /\ StoreLoaded

\* lines 134-140: refreshTables of the scoped profile
refreshCurrentTables == refreshTables(activeProfileId)

SearchOpenNext ==
    \/ openSelectedTable
    \/ refreshCurrentTables
    \/ \E c \in calls, ok \in BOOLEAN, tbls \in TableLists,
          f \in Failures \cup {NoFailure} :
          (ok <=> f = NoFailure) /\ ListTablesResponse(c, ok, tbls, f)
    \/ \E c \in calls : OpenTableResponseOk(c)
    \/ \E c \in calls, f \in Failures : OpenSelectedOpenError(c, f)
    \/ \E c \in calls : OpenSelectedSchemaOk(c)
    \/ \E c \in calls, f \in Failures : OpenSelectedSchemaError(c, f)

SearchOpenSpec == SearchOpenInit /\ [][SearchOpenNext]_vars

\* the steps at which openSelectedTable reaches its last line
OpenSelectedEnds ==
    {"searchOpenDropped", "searchOpenFailed", "searchOpenDone", "searchSchemaFailed"}

\* C26 as stated: when openSelectedTable ends with the status "opened <name>",
\* the table of that name is open in the scoped connection (activeTableId
\* set), and when its openTable failed or was dropped the status is not set.
C26_Step ==
    last'.op \in OpenSelectedEnds /\ statusMessage' = OpenedMessage(last'.name) =>
        /\ last'.op = "searchOpenDone"
        /\ conn'[last'.p].activeTableId # NoId
        /\ conn'[last'.p].activeTableName = last'.name

C26_StatusOnlyWhenOpened == [][C26_Step]_vars

====
